---------------------------- MODULE Spec2Model ----------------------------
(***************************************************************************)
(* A model of the spreadsheet -> relational store synchronisation engine   *)
(* of anime_site (src/sheets_sync.py, src/database.py, src/main.py).       *)
(*                                                                         *)
(* Two state machines share the module:                                    *)
(*   SpecRetry : execute_with_retry, one call of the wrapper, step by step *)
(*   Spec      : sync_sheet_to_db (reconciliation, patch flush, commit,    *)
(*               enrichment) run repeatedly against one store and one      *)
(*               spreadsheet that a human edits between runs.              *)
(*                                                                         *)
(* Values.  A Python Optional is None == <<>> or Some(v) == <<v>>.  A      *)
(* spreadsheet cell is a sequence of characters; " " is the blank          *)
(* character and every other element stands for a run of non-blank         *)
(* characters.                                                             *)
(***************************************************************************)
EXTENDS Integers, Sequences, FiniteSets, TLC

VARIABLES
    \* ---- execute_with_retry ------------------------------------------
    rMax,        \* max_retries
    rOp,         \* func.__name__
    rpc,         \* position: "off" | "loop" | "call" | "sleep" | "returned" | "raised" | "exhausted"
    attempt,     \* the loop variable of range(max_retries)
    calls,       \* number of times func was invoked
    waits,       \* the time.sleep durations, in order
    hist,        \* outcome of every invocation of func, in order
    rOut,        \* the value returned or the exception raised
    \* ---- the two stores ------------------------------------------------
    headers,     \* header row of the "Anime" tab (set of column names; {} = empty tab)
    sheet,       \* data rows of the "Anime" tab: sequence of [column -> cell]
    db,          \* committed rows of anime_library: [system_id -> AnimeEntry]
    \* ---- one run of sync_sheet_to_db -----------------------------------
    pc,          \* position in sync_sheet_to_db
    hdrs,        \* headers = rows[0] as read at the start of the run
    anime_row_dicts, \* the rows as read at the start of the run
    idx,         \* next row of the reconciliation loop (1-based)
    cells_to_update, \* pending patches, in the order queued
    flushed,     \* number of patches already written back
    pending,     \* session: objects added with db.add, not yet flushed
    dirty,       \* session: modified persistent objects [system_id -> AnimeEntry]
    added_count,
    updated_count,
    anime_to_enrich, \* result of the enrichment query (sequence of system_ids)
    eidx,        \* next entry of the enrichment loop (1-based)
    enriched_count,
    result,      \* what the run returned or raised
    nextUuid,    \* number of uuid4() values drawn so far, plus one
    \* ---- environment and bookkeeping ------------------------------------
    runs,        \* sync runs started
    edits,       \* human edits of the spreadsheet
    rowlog,      \* this run: per reconciled row, what the loop did
    dbAtStart,   \* this run: db when the run started
    dbAtCommit,  \* this run: db right after the reconciliation commit
    nCommits,    \* this run: successful db.commit() calls
    nFetches,    \* this run: fetch_mal_data calls
    sinceFetch,  \* this run: seconds slept since the last fetch_mal_data call
    lastStatus,  \* this run: HTTP status (or "exception") of the last fetch
    cleanRerun,  \* this run started right after a successful run, no edit in between
    remote,      \* this run or call: the remote spreadsheet calls issued so far
    \* ---- populate_anime_series_tab ---------------------------------------
    hubTab,      \* the "Anime Series" tab: does it exist, has it a header row, its rows
    hpc,         \* position in populate_anime_series_tab
    series_rows, \* the hub rows as read (without the header row)
    hub_cells,   \* cells_to_update of populate_anime_series_tab
    existing_series_tracker,
    new_series_to_append,
    hubAtCall,   \* hubTab when populate_anime_series_tab was called
    \* ---- update_episode_progress_in_sheet --------------------------------
    ppc,         \* position in update_episode_progress_in_sheet
    p_system_id, \* argument system_id
    p_ep_fin,    \* argument ep_fin
    p_cell,      \* row of the cell sheet.find returned, or None
    p_error,     \* what the call raised, "" if nothing
    sheetAtCall, \* the data rows when the call was made
    dbAtCall     \* the store when the progress route was called

retryVars == <<rMax, rOp, rpc, attempt, calls, waits, hist, rOut>>

storeVars == <<headers, sheet, db>>

runVars == <<pc, hdrs, anime_row_dicts, idx, cells_to_update, flushed, pending,
             dirty, added_count, updated_count, anime_to_enrich, eidx,
             enriched_count, result, nextUuid>>

bookVars == <<runs, edits, rowlog, dbAtStart, dbAtCommit, nCommits, nFetches,
              sinceFetch, lastStatus, cleanRerun>>

syncVars == <<storeVars, runVars, bookVars>>

hubVars == <<hubTab, hpc, series_rows, hub_cells, existing_series_tracker,
             new_series_to_append, hubAtCall>>

progVars == <<ppc, p_system_id, p_ep_fin, p_cell, p_error, sheetAtCall, dbAtCall>>

vars == <<retryVars, syncVars, hubVars, progVars, remote>>

None == <<>>
Some(v) == <<v>>

-----------------------------------------------------------------------------
(* Bounds of the model *)

MaxRetriesBound == 4

MaxRows == 2

MaxRuns == 2

MaxEdits == 1

\* the code writes patches in chunks of 50 cells; the model scales the chunk
\* down so that a run of MaxRows rows needs more than one chunk
ChunkSize == 1

-----------------------------------------------------------------------------
(* execute_with_retry (src/sheets_sync.py:16-35) *)

DefaultMaxRetries == 3

BackoffUnit == 60

OpNames == {"worksheet", "get_all_values", "update_cells"}

ReturnValues == {"v1", "v2"}

\* What one invocation of func can do: return a value or raise.  str(e) is
\* a sequence of words.
Successes == [kind : {"ok"}, value : ReturnValues, text : {<<>>}]

Failures ==
    { [kind |-> "APIError", value |-> "", text |-> <<"429", "Quota exceeded">>],
      [kind |-> "APIError", value |-> "", text |-> <<"500", "Internal error">>],
      [kind |-> "APIError", value |-> "", text |-> <<"400", "range", "429">>],
      [kind |-> "Exception", value |-> "", text |-> <<"429", "Too Many Requests">>] }

Outcomes == Successes \cup Failures

\* except APIError as e: if "429" in str(e)
IsQuotaExceeded_AnyAPIError(e) == e.kind = "APIError"

IsQuotaExceeded(e) ==
    /\ e.kind = "APIError"
    /\ \E i \in 1..Len(e.text) : e.text[i] = "429"

\* wait_time = 60 * (attempt + 1)
WaitTime_Constant(a) == BackoffUnit

WaitTime(a) == BackoffUnit * (a + 1)

\* raise Exception(f"Failed to execute {func.__name__} after {max_retries} retries ...")
TerminalFailure(op, budget) ==
    [kind |-> "Exception", value |-> "",
     text |-> <<"Failed to execute", op, "after retries">>, budget |-> budget]

RetryStart ==
    /\ rMax \in (0..MaxRetriesBound) \cup {DefaultMaxRetries}
    /\ rOp \in OpNames
    /\ rpc = "loop"
    /\ attempt = 0
    /\ calls = 0
    /\ waits = <<>>
    /\ hist = <<>>
    /\ rOut = None

\* for attempt in range(max_retries): ... ; after the loop, raise
RetryLoopHead_OneMore ==
    /\ rpc = "loop"
    /\ IF attempt <= rMax
          THEN rpc' = "call" /\ rOut' = rOut
          ELSE rpc' = "exhausted" /\ rOut' = Some(TerminalFailure(rOp, rMax))
    /\ UNCHANGED <<rMax, rOp, attempt, calls, waits, hist, syncVars, hubVars, progVars,
                   remote>>

RetryLoopHead ==
    /\ rpc = "loop"
    /\ IF attempt < rMax
          THEN rpc' = "call" /\ rOut' = rOut
          ELSE rpc' = "exhausted" /\ rOut' = Some(TerminalFailure(rOp, rMax))
    /\ UNCHANGED <<rMax, rOp, attempt, calls, waits, hist, syncVars, hubVars, progVars,
                   remote>>

\* try: return func(*args, **kwargs) / except APIError as e: ... else: raise e
RetryInvoke(o) ==
    /\ rpc = "call"
    /\ calls' = calls + 1
    /\ hist' = Append(hist, o)
    /\ IF o.kind = "ok"
          THEN rpc' = "returned" /\ rOut' = Some(o)
          ELSE IF IsQuotaExceeded(o)
                  THEN rpc' = "sleep" /\ rOut' = rOut
                  ELSE rpc' = "raised" /\ rOut' = Some(o)
    /\ UNCHANGED <<rMax, rOp, attempt, waits, syncVars, hubVars, progVars,
                   remote>>

\* time.sleep(wait_time), then the next iteration of the loop
RetrySleep ==
    /\ rpc = "sleep"
    /\ waits' = Append(waits, WaitTime(attempt))
    /\ attempt' = attempt + 1
    /\ rpc' = "loop"
    /\ UNCHANGED <<rMax, rOp, calls, hist, rOut, syncVars, hubVars, progVars,
                   remote>>

RetryNext ==
    \/ RetryLoopHead
    \/ \E o \in Outcomes : RetryInvoke(o)
    \/ RetrySleep

-----------------------------------------------------------------------------
(* Cells and cleaning (src/sheets_sync.py:54-65) *)

\* str.strip(): drop leading and trailing blanks
RECURSIVE LStrip(_)
LStrip(s) == IF s # <<>> /\ Head(s) = " " THEN LStrip(Tail(s)) ELSE s

RECURSIVE RStrip(_)
RStrip(s) ==
    IF s # <<>> /\ s[Len(s)] = " " THEN RStrip(SubSeq(s, 1, Len(s) - 1)) ELSE s

Strip(s) == RStrip(LStrip(s))

DigitChars == <<"0", "1", "2", "3", "4", "5", "6", "7", "8", "9">>

IsDigit(c) == \E d \in 1..Len(DigitChars) : DigitChars[d] = c

DigitOf(c) == (CHOOSE d \in 1..Len(DigitChars) : DigitChars[d] = c) - 1

RECURSIVE NatOf(_)
NatOf(s) ==
    IF s = <<>> THEN 0
    ELSE 10 * NatOf(SubSeq(s, 1, Len(s) - 1)) + DigitOf(s[Len(s)])

\* int(val) succeeds on an optionally signed run of digits (surrounding
\* blanks allowed); anything else is a ValueError
IsIntLiteral(s) ==
    LET t == Strip(s)
        u == IF t # <<>> /\ Head(t) \in {"+", "-"} THEN Tail(t) ELSE t
    IN  u # <<>> /\ \A i \in 1..Len(u) : IsDigit(u[i])

IntOf(s) ==
    LET t == Strip(s) IN
    IF Head(t) = "-" THEN 0 - NatOf(Tail(t))
    ELSE IF Head(t) = "+" THEN NatOf(Tail(t))
    ELSE NatOf(t)

\* clean_value(val)  (expected_type = str)
CleanStr(cell) ==
    IF cell = <<>> \/ Strip(cell) = <<>> THEN None ELSE Some(Strip(cell))

\* clean_value(val, int)
CleanInt(cell) ==
    IF cell = <<>> \/ Strip(cell) = <<>> THEN None
    ELSE IF IsIntLiteral(cell) THEN Some(IntOf(cell))
    ELSE None

\* row_data.get(col, "")
Get(row, col) == IF col \in DOMAIN row THEN row[col] ELSE <<>>

\* str(n), as the cell reads after an integer was written into it
RECURSIVE StrOf(_)
StrOf(n) ==
    IF n < 10 THEN <<DigitChars[n + 1]>>
    ELSE StrOf(n \div 10) \o <<DigitChars[(n % 10) + 1]>>

-----------------------------------------------------------------------------
(* Season inference (src/sheets_sync.py:78-119, 365-398).  In a title cell  *)
(* a word, a digit, a blank and a CJK character are one element each; a     *)
(* CJK character is written by its reading: "di" is U+7B2C, "ji" is U+5B63, *)
(* "yi" .. "shi" are the numerals one to ten.                               *)

\* re.IGNORECASE: the spellings of a word the model tells apart
SeasonWords == {"Season", "season", "SEASON"}

PartWords == {"Part", "part", "PART"}

\* str.title() of a matched element
TitleCase(t) ==
    IF t \in SeasonWords THEN "Season" ELSE IF t \in PartWords THEN "Part" ELSE t

\* \d+ at position i: the length of the run of digits there
RECURSIVE DigitRun(_, _)
DigitRun(s, i) == IF i <= Len(s) /\ IsDigit(s[i]) THEN 1 + DigitRun(s, i + 1) ELSE 0

\* \s* at position i
RECURSIVE SpaceRun(_, _)
SpaceRun(s, i) == IF i <= Len(s) /\ s[i] = " " THEN 1 + SpaceRun(s, i + 1) ELSE 0

\* Season\s\d+(?:\sPart\s\d+)? at position i: the length matched, 0 if none
SeasonMatchAt(s, i) ==
    IF i + 2 <= Len(s) /\ s[i] \in SeasonWords /\ s[i + 1] = " " /\ DigitRun(s, i + 2) > 0
       THEN LET d == DigitRun(s, i + 2)
                j == i + 2 + d
                part == IF /\ j + 3 <= Len(s)
                           /\ s[j] = " "
                           /\ s[j + 1] \in PartWords
                           /\ s[j + 2] = " "
                           /\ DigitRun(s, j + 3) > 0
                           THEN 3 + DigitRun(s, j + 3)
                           ELSE 0
            IN  2 + d + part
       ELSE 0

First(S) == CHOOSE i \in S : \A j \in S : i <= j

\* extract_season_from_title(title_en)
ExtractSeasonFromTitle(title_en) ==
    LET hits == {i \in 1..Len(title_en) : SeasonMatchAt(title_en, i) > 0}
    IN  IF title_en = <<>> \/ hits = {} THEN None
        ELSE LET i == First(hits)
                 n == SeasonMatchAt(title_en, i)
             IN  Some([k \in 1..n |-> TitleCase(title_en[i + k - 1])])

CjkNumerals == <<"yi", "er", "san", "si", "wu", "liu", "qi", "ba", "jiu", "shi">>

IsCjkNumeral(c) == \E d \in 1..Len(CjkNumerals) : CjkNumerals[d] = c

\* cn_to_num
CnToNum(c) == CHOOSE d \in 1..Len(CjkNumerals) : CjkNumerals[d] = c

RECURSIVE CjkRun(_, _)
CjkRun(s, i) == IF i <= Len(s) /\ IsCjkNumeral(s[i]) THEN 1 + CjkRun(s, i + 1) ELSE 0

\* di\s*([yi..shi]+|\d+)\s*ji at position i: the group, or None
CnMatchAt(s, i) ==
    IF i <= Len(s) /\ s[i] = "di"
       THEN LET a == i + 1 + SpaceRun(s, i + 1)
                g == IF CjkRun(s, a) > 0 THEN CjkRun(s, a) ELSE DigitRun(s, a)
                b == a + g + SpaceRun(s, a + g)
            IN  IF g > 0 /\ b <= Len(s) /\ s[b] = "ji"
                   THEN Some(SubSeq(s, a, a + g - 1))
                   ELSE None
       ELSE None

\* extract_season_from_cn_title(title_cn)
ExtractSeasonFromCnTitle(title_cn) ==
    LET hits == {i \in 1..Len(title_cn) : CnMatchAt(title_cn, i) # None}
    IN  IF title_cn = <<>> \/ hits = {} THEN None
        ELSE LET num_str == CnMatchAt(title_cn, First(hits))[1]
             IN  IF \A k \in 1..Len(num_str) : IsDigit(num_str[k])
                    THEN Some(<<"Season", " ">> \o num_str)
                 ELSE IF Len(num_str) = 1
                    THEN Some(<<"Season", " ">> \o StrOf(CnToNum(num_str[1])))
                 ELSE None

\* series_counts.get(series_en_val)
SeriesCount_One(rows, s_en) == 1

SeriesCount(rows, s_en) ==
    Cardinality({i \in 1..Len(rows) : CleanStr(Get(rows[i], "series_en")) = s_en})

\* line 372: the season cell is currently empty
SeasonIsBlank(row_data) ==
    Get(row_data, "series_season") = <<>> \/ Strip(Get(row_data, "series_season")) = <<>>

\* lines 374-389: extracted_season
InferSeason_ChineseFirst(row_data, rows) ==
    LET en == ExtractSeasonFromTitle(Get(row_data, "series_season_en"))
        cn == ExtractSeasonFromCnTitle(Get(row_data, "series_season_cn"))
        series_en_val == CleanStr(Get(row_data, "series_en"))
    IN  IF cn # None THEN cn
        ELSE IF en # None THEN en
        ELSE IF series_en_val # None /\ SeriesCount(rows, series_en_val) = 1
                THEN Some(<<"Season", " ", "1">>)
        ELSE None

InferSeason(row_data, rows) ==
    LET en == ExtractSeasonFromTitle(Get(row_data, "series_season_en"))
        cn == ExtractSeasonFromCnTitle(Get(row_data, "series_season_cn"))
        series_en_val == CleanStr(Get(row_data, "series_en"))
    IN  IF en # None THEN en
        ELSE IF cn # None THEN cn
        ELSE IF series_en_val # None /\ SeriesCount(rows, series_en_val) = 1
                THEN Some(<<"Season", " ", "1">>)
        ELSE None

\* lines 366-392: series_season_val
SeasonVal(row_data, rows) ==
    IF SeasonIsBlank(row_data) /\ InferSeason(row_data, rows) # None
       THEN InferSeason(row_data, rows)[1]
       ELSE Get(row_data, "series_season")

-----------------------------------------------------------------------------
(* External id extraction (src/sheets_sync.py:68-75, 351-363).  In a        *)
(* mal_link cell the text "myanimelist.net/anime/" is one element.          *)

MalUrl == "myanimelist.net/anime/"

\* extract_mal_id(mal_link)
ExtractMalId(mal_link) ==
    LET hits == {i \in 1..Len(mal_link) :
                    mal_link[i] = MalUrl /\ DigitRun(mal_link, i + 1) > 0}
    IN  IF mal_link = <<>> \/ hits = {} THEN None
        ELSE LET i == First(hits)
             IN  Some(NatOf(SubSeq(mal_link, i + 1, i + DigitRun(mal_link, i + 1))))

\* line 354: (not mal_id_val or str(mal_id_val).strip() == "") and mal_link_val
TriesLink(row_data) ==
    /\ Strip(Get(row_data, "mal_id")) = <<>>
    /\ Get(row_data, "mal_link") # <<>>

\* lines 355-356: extracted_id, when it is truthy
ExtractedId(row_data) ==
    IF TriesLink(row_data) /\ ExtractMalId(Get(row_data, "mal_link")) \notin {None, Some(0)}
       THEN ExtractMalId(Get(row_data, "mal_link"))
       ELSE None

\* lines 352-357, 437: clean_value(mal_id_val, int)
MalIdVal(row_data) ==
    IF ExtractedId(row_data) # None
       THEN ExtractedId(row_data)
       ELSE CleanInt(Get(row_data, "mal_id"))

\* lines 359-363: the extracted id is written back
MalIdPatch(r, row_data, hs) ==
    IF ExtractedId(row_data) # None /\ "mal_id" \in hs
       THEN <<[row |-> r, col |-> "mal_id", value |-> StrOf(ExtractedId(row_data)[1])]>>
       ELSE <<>>

-----------------------------------------------------------------------------
(* Movie episode total (src/sheets_sync.py:400-412) *)

\* str.lower() of an element of the airing_type cell
Lower(t) ==
    IF t \in {"Movie", "MOVIE", "movie"} THEN "movie"
    ELSE IF t \in {"TV", "tv"} THEN "tv"
    ELSE t

\* line 404: airing_type_val and airing_type_val.lower() == "movie"
IsMovie_CaseSensitive(row_data) ==
    CleanStr(Get(row_data, "airing_type")) = Some(<<"movie">>)

IsMovie(row_data) ==
    LET airing_type_val == CleanStr(Get(row_data, "airing_type"))
    IN  /\ airing_type_val # None
        /\ [k \in 1..Len(airing_type_val[1]) |-> Lower(airing_type_val[1][k])] = <<"movie">>

\* lines 402-406: ep_total_val
EpTotalVal(row_data) ==
    IF IsMovie(row_data) THEN Some(1) ELSE CleanInt(Get(row_data, "ep_total"))

\* lines 404-412: the ep_total cell of a movie is rewritten unless it reads 1
EpTotalPatch(r, row_data, hs) ==
    IF IsMovie(row_data) /\ CleanInt(Get(row_data, "ep_total")) # Some(1)
                         /\ "ep_total" \in hs
       THEN <<[row |-> r, col |-> "ep_total", value |-> StrOf(1)]>>
       ELSE <<>>

-----------------------------------------------------------------------------
(* The canonical record (src/database.py:27-82) and the normalized row      *)
(* (src/sheets_sync.py:415-446).  The model keeps one free-text column      *)
(* (studio), series_season, airing_type, airing_status, ep_total, ep_fin,   *)
(* mal_id, mal_link, one column the sync never writes (alt_name) and the    *)
(* two enrichment columns.                                                  *)

EntryKeys ==
    {"system_id", "studio", "series_season", "airing_type", "airing_status",
     "ep_total", "ep_fin", "mal_id", "mal_link"}

Columns == EntryKeys \cup {"alt_name", "cover_image_url", "mal_rating"}

StickyFields == {"cover_image_url", "mal_rating"}

NotYetAired == <<"Not Yet Aired">>

\* str(uuid.uuid4()): a value never seen before
UuidTokens == <<"u1", "u2", "u3", "u4", "u5", "u6", "u7", "u8", "u9">>

Uuid(n) == <<UuidTokens[n]>>

\* if not system_id  (after .strip())
NeedsId_NoStrip(cell) == cell = <<>>

NeedsId(cell) == Strip(cell) = <<>>

\* entry_data = {...}
EntryData(system_id, row_data, series_season_val) ==
    [k \in EntryKeys |->
        CASE k = "system_id" -> system_id
          [] k = "mal_id" -> MalIdVal(row_data)
          [] k = "series_season" -> CleanStr(series_season_val)
          [] k = "ep_total" -> EpTotalVal(row_data)
          [] k = "ep_fin" -> CleanInt(Get(row_data, k))
          [] OTHER -> CleanStr(Get(row_data, k))]

\* AnimeEntry(**entry_data), as the row reads once inserted: columns not
\* given are NULL, and a None in a column that has a default is left out of
\* the INSERT, so ep_fin (default=0, src/database.py:49) is stored as 0
NewEntry(entry_data) ==
    [c \in Columns |->
        IF c \notin DOMAIN entry_data THEN None
        ELSE IF c = "ep_fin" /\ entry_data[c] = None THEN Some(0)
        ELSE entry_data[c]]

\* for key, value in entry_data.items(): ... setattr(existing_entry, key, value)
MergeExisting_ClearsSticky(existing, entry_data) ==
    [c \in Columns |-> IF c \in DOMAIN entry_data THEN entry_data[c] ELSE None]

MergeExisting_KeepsOnAbsent(existing, entry_data) ==
    [c \in Columns |->
        IF c \in DOMAIN entry_data /\ entry_data[c] # None
           THEN entry_data[c]
           ELSE existing[c]]

MergeExisting(existing, entry_data) ==
    [c \in Columns |->
        IF c \in DOMAIN entry_data
           THEN IF c \in StickyFields /\ existing[c] # None
                   THEN existing[c]
                   ELSE entry_data[c]
           ELSE existing[c]]

\* gspread.Cell(row=idx, col=headers.index(name) + 1, value=...)
Patch(r, name, value) == [row |-> r, col |-> name, value |-> value]

\* worksheet.update_cells(chunk): data row i is sheet row i + 1
RECURSIVE ApplyPatches(_, _)
ApplyPatches(sh, ps) ==
    IF ps = <<>> THEN sh
    ELSE LET p == Head(ps)
             i == p.row - 1
             sh1 == IF i \in DOMAIN sh /\ p.col \in DOMAIN sh[i]
                       THEN [sh EXCEPT ![i][p.col] = p.value]
                       ELSE sh
         IN  ApplyPatches(sh1, Tail(ps))

-----------------------------------------------------------------------------
(* The session (src/database.py:21, autoflush=False) *)

EmptyMap == [x \in {} |-> None]

\* db.query(AnimeEntry).filter(AnimeEntry.system_id == system_id).first():
\* the SELECT sees committed rows only; a row found is returned as the
\* session's object, with the changes staged on it
Lookup(store, staged, id) ==
    IF id \in DOMAIN store
       THEN Some(IF id \in DOMAIN staged THEN staged[id] ELSE store[id])
       ELSE None

PendingIds(new) == {new[i].system_id : i \in 1..Len(new)}

\* the INSERTs of a flush succeed unless two rows share the primary key
CanFlush_NoConstraint(store, new) == TRUE

CanFlush(store, new) ==
    /\ \A i, j \in 1..Len(new) : new[i].system_id = new[j].system_id => i = j
    /\ PendingIds(new) \cap DOMAIN store = {}

\* db.commit()
Flushed_OnlyTouched(store, new, staged) ==
    [id \in DOMAIN staged \cup PendingIds(new) |->
        IF id \in DOMAIN staged
           THEN staged[id]
           ELSE (CHOOSE e \in {new[i] : i \in 1..Len(new)} : e.system_id = id)]

Flushed(store, new, staged) ==
    [id \in DOMAIN store \cup PendingIds(new) |->
        IF id \in DOMAIN store
           THEN IF id \in DOMAIN staged THEN staged[id] ELSE store[id]
           ELSE (CHOOSE e \in {new[i] : i \in 1..Len(new)} : e.system_id = id)]

\* db.rollback(): staged changes are discarded
Rollback_KeepsStaged(s) == s

Rollback(s) == [new |-> <<>>, staged |-> EmptyMap]

-----------------------------------------------------------------------------
(* Enrichment (src/sheets_sync.py:223-291) *)

PacingSeconds == 2

\* the filter of the enrichment query
Eligible_IgnoresAiringStatus(e) ==
    /\ e.mal_id # None
    /\ (e.cover_image_url = None \/ e.mal_rating = None)

Eligible(e) ==
    /\ e.mal_id # None
    /\ \/ e.cover_image_url = None
       \/ /\ e.mal_rating = None
          /\ \/ (e.airing_status # None /\ e.airing_status # Some(NotYetAired))
             \/ e.airing_status = None

\* .all(): the rows in whatever order the database returns them
Orderings(S) ==
    {f \in [1..Cardinality(S) -> S] : \A i, j \in 1..Cardinality(S) : f[i] = f[j] => i = j}

\* what requests.get can do: a status with a body, or an exception
FetchResponses ==
    { [status |-> "200", image |-> Some("img1"), score |-> Some(8)],
      [status |-> "200", image |-> Some("img2"), score |-> None],
      [status |-> "200", image |-> None, score |-> Some(0)],
      [status |-> "429", image |-> None, score |-> None],
      [status |-> "exception", image |-> None, score |-> None] }

\* fetch_mal_data(mal_id)
FetchMalData_NoStatusCheck(resp) ==
    Some([cover_image_url |-> resp.image, mal_rating |-> resp.score])

FetchMalData(resp) ==
    IF resp.status = "200"
       THEN Some([cover_image_url |-> resp.image, mal_rating |-> resp.score])
       ELSE None

\* Python truth of an Optional[str] and of an Optional[float]
TruthyStr(o) == o # None /\ o[1] # ""

TruthyNum(o) == o # None /\ o[1] # 0

\* if mal_data["cover_image_url"]: ... ; if mal_data["mal_rating"]: ...
EnrichEntry(anime, mal_data) ==
    [anime EXCEPT
        !.cover_image_url =
            IF TruthyStr(mal_data.cover_image_url) THEN mal_data.cover_image_url ELSE @,
        !.mal_rating =
            IF TruthyNum(mal_data.mal_rating) THEN mal_data.mal_rating ELSE @]

\* time.sleep(2), after every entry
PacingDelay_OnlyOnSuccess(mal_data) == IF mal_data # None THEN PacingSeconds ELSE 0

PacingDelay(mal_data) == PacingSeconds

-----------------------------------------------------------------------------
(* sync_sheet_to_db (src/sheets_sync.py:299-497), one step per action.      *)
(* A remote call made through execute_with_retry either returns or raises   *)
(* (SpecRetry is the model of the wrapper itself).                          *)

AllHeaders == {"system_id", "studio", "mal_id"}

HeaderRows == {AllHeaders, AllHeaders \ {"system_id"}, {}}

CellValues(col) ==
    CASE col = "system_id" -> {<<>>, <<" ">>, <<"a">>, <<"a", " ">>}
      [] col = "studio" -> {<<>>, <<"A">>}
      [] col = "mal_id" -> {<<>>, <<"7">>}
      [] OTHER -> {<<>>}

\* every tab the "Anime" worksheet can be: a header row and up to MaxRows rows
RowsOf(h) == {r \in [h -> UNION {CellValues(c) : c \in h}] : \A c \in h : r[c] \in CellValues(c)}

SheetsOf(h) ==
    IF h = {} THEN {<<>>}
    ELSE UNION {[1..n -> RowsOf(h)] : n \in 0..MaxRows}

NoResult == [kind |-> "none", error |-> "", rows_updated |-> 0, enriched_count |-> 0]

ReturnedNone == [NoResult EXCEPT !.kind = "return_none"]

Raised(e) == [NoResult EXCEPT !.kind = "raise", !.error = e]

\* return {"status": "success", "rows_updated": ..., "enriched_count": ...}
Success(rows, enriched) ==
    [kind |-> "success", error |-> "", rows_updated |-> rows, enriched_count |-> enriched]

Between == {"idle", "returned", "raised"}

\* where the loop over anime_row_dicts goes next; after it, the patch flush
\* (if cells_to_update) and db.commit()
LoopNext_NoFlush(i, n, patches) == IF i <= n THEN "loop" ELSE "commit"

LoopNext(i, n, patches) ==
    IF i <= n THEN "loop"
    ELSE IF patches # <<>> THEN "flush" ELSE "commit"

AfterFlush_SkipsCommit == "enrich_query"

AfterFlush == "commit"

\* the exception each step of the try block can raise
FailureAt(p) == IF p = "flush" THEN "sheet_error" ELSE "store_error"

\* a remote call of the spreadsheet service: the function that makes it, the
\* gspread operation, and whether it is made through execute_with_retry
Call(fn, op, wrapped) == [fn |-> fn, op |-> op, wrapped |-> wrapped]

\* lines 302, 303, 306 and (inside populate_anime_series_tab) 135, in order
SyncReadCalls ==
    << Call("sync_sheet_to_db", "gc.open", FALSE),
       Call("sync_sheet_to_db", "spreadsheet.worksheet", TRUE),
       Call("sync_sheet_to_db", "worksheet.get_all_values", TRUE),
       Call("populate_anime_series_tab", "spreadsheet.worksheet", TRUE) >>

Issued(cs, n) == {cs[i] : i \in 1..n}

\* an empty tab returns at line 309, before populate_anime_series_tab
ReadCallsOf(h) == IF h = {} THEN 3 ELSE 4

\* lines 299-336: open the tab, read it, start the session.  The spreadsheet
\* has no "Anime Series" tab here, so populate_anime_series_tab returns at
\* line 138 (SpecHub is the model of the tab being there).
SyncStart ==
    /\ pc \in Between
    /\ ~hubTab.exists
    /\ runs < MaxRuns
    /\ remote' = Issued(SyncReadCalls, ReadCallsOf(headers))
    /\ runs' = runs + 1
    /\ cleanRerun' = (pc = "returned" /\ result.kind = "success")
    /\ hdrs' = headers
    /\ anime_row_dicts' = sheet
    /\ idx' = 1
    /\ cells_to_update' = <<>>
    /\ flushed' = 0
    /\ pending' = <<>>
    /\ dirty' = EmptyMap
    /\ added_count' = 0
    /\ updated_count' = 0
    /\ anime_to_enrich' = <<>>
    /\ eidx' = 1
    /\ enriched_count' = 0
    /\ rowlog' = <<>>
    /\ dbAtStart' = db
    /\ dbAtCommit' = db
    /\ nCommits' = 0
    /\ nFetches' = 0
    /\ sinceFetch' = 0
    /\ lastStatus' = ""
    /\ IF headers = {}
          THEN pc' = "returned" /\ result' = ReturnedNone
          ELSE pc' = LoopNext(1, Len(sheet), <<>>) /\ result' = NoResult
    /\ UNCHANGED <<storeVars, nextUuid, edits, retryVars,
                   hubVars, progVars>>

\* lines 302-306, 328: a remote call raises before the try block is entered
SyncStartFails ==
    /\ pc \in Between
    /\ ~hubTab.exists
    /\ runs < MaxRuns
    /\ \E n \in 1..ReadCallsOf(headers) : remote' = Issued(SyncReadCalls, n)
    /\ runs' = runs + 1
    /\ cleanRerun' = FALSE
    /\ hdrs' = {}
    /\ anime_row_dicts' = <<>>
    /\ idx' = 1
    /\ cells_to_update' = <<>>
    /\ flushed' = 0
    /\ pending' = <<>>
    /\ dirty' = EmptyMap
    /\ added_count' = 0
    /\ updated_count' = 0
    /\ anime_to_enrich' = <<>>
    /\ eidx' = 1
    /\ enriched_count' = 0
    /\ rowlog' = <<>>
    /\ dbAtStart' = db
    /\ dbAtCommit' = db
    /\ nCommits' = 0
    /\ nFetches' = 0
    /\ sinceFetch' = 0
    /\ lastStatus' = ""
    /\ pc' = "raised"
    /\ result' = Raised("open_error")
    /\ UNCHANGED <<storeVars, nextUuid, edits, retryVars,
                   hubVars, progVars>>

\* lines 339-464: one iteration of the reconciliation loop
ReconcileRow ==
    /\ pc = "loop"
    /\ idx <= Len(anime_row_dicts)
    /\ LET row_data == anime_row_dicts[idx]
           cell == Get(row_data, "system_id")
           mint == NeedsId(cell)
           system_id == IF mint THEN Uuid(nextUuid) ELSE Strip(cell)
           id_patch == IF mint /\ "system_id" \in hdrs
                          THEN <<Patch(idx + 1, "system_id", system_id)>>
                          ELSE <<>>
           extracted_season == IF SeasonIsBlank(row_data)
                                  THEN InferSeason(row_data, anime_row_dicts)
                                  ELSE None
           season_patch == IF extracted_season # None /\ "series_season" \in hdrs
                              THEN <<Patch(idx + 1, "series_season", extracted_season[1])>>
                              ELSE <<>>
           patches == id_patch \o MalIdPatch(idx + 1, row_data, hdrs)
                               \o season_patch
                               \o EpTotalPatch(idx + 1, row_data, hdrs)
           entry_data == EntryData(system_id, row_data,
                                   SeasonVal(row_data, anime_row_dicts))
           existing_entry == Lookup(db, dirty, system_id)
           merged == IF existing_entry # None
                        THEN MergeExisting(existing_entry[1], entry_data)
                        ELSE NewEntry(entry_data)
       IN  /\ mint => nextUuid <= Len(UuidTokens)
           /\ nextUuid' = IF mint THEN nextUuid + 1 ELSE nextUuid
           /\ cells_to_update' = cells_to_update \o patches
           /\ IF existing_entry # None
                 THEN /\ dirty' = [id \in DOMAIN dirty \cup {system_id} |->
                                      IF id = system_id THEN merged ELSE dirty[id]]
                      /\ updated_count' = updated_count + 1
                      /\ UNCHANGED <<pending, added_count>>
                 ELSE /\ pending' = Append(pending, merged)
                      /\ added_count' = added_count + 1
                      /\ UNCHANGED <<dirty, updated_count>>
           /\ rowlog' = Append(rowlog,
                  [row |-> idx, id |-> system_id, minted |-> mint,
                   kind |-> IF existing_entry # None THEN "updated" ELSE "created",
                   data |-> entry_data, before |-> existing_entry, after |-> merged])
           /\ idx' = idx + 1
           /\ pc' = LoopNext(idx + 1, Len(anime_row_dicts), cells_to_update')
    /\ UNCHANGED <<storeVars, hdrs, anime_row_dicts, flushed, anime_to_enrich, eidx,
                   enriched_count, result, runs, edits, dbAtStart, dbAtCommit,
                   nCommits, nFetches, sinceFetch, lastStatus, cleanRerun,
                   retryVars,
                   hubVars, progVars, remote>>

Min(a, b) == IF a <= b THEN a ELSE b

\* lines 466-473: one chunk of cells_to_update written back
FlushChunk ==
    /\ pc = "flush"
    /\ flushed < Len(cells_to_update)
    /\ LET upto == Min(flushed + ChunkSize, Len(cells_to_update))
           chunk == SubSeq(cells_to_update, flushed + 1, upto)
       IN  /\ sheet' = ApplyPatches(sheet, chunk)
           /\ flushed' = upto
           /\ pc' = IF upto = Len(cells_to_update) THEN AfterFlush ELSE "flush"
    /\ remote' = remote \cup {Call("sync_sheet_to_db", "worksheet.update_cells", TRUE)}
    /\ UNCHANGED <<headers, db, hdrs, anime_row_dicts, idx, cells_to_update, pending,
                   dirty, added_count, updated_count, anime_to_enrich, eidx,
                   enriched_count, result, nextUuid, bookVars, retryVars,
                   hubVars, progVars>>

\* line 475: db.commit() of the reconciliation
Commit ==
    /\ pc = "commit"
    /\ CanFlush(db, pending)
    /\ db' = Flushed(db, pending, dirty)
    /\ pending' = <<>>
    /\ dirty' = EmptyMap
    /\ nCommits' = nCommits + 1
    /\ dbAtCommit' = db'
    /\ pc' = "enrich_query"
    /\ UNCHANGED <<headers, sheet, hdrs, anime_row_dicts, idx, cells_to_update,
                   flushed, added_count, updated_count, anime_to_enrich, eidx,
                   enriched_count, result, nextUuid, runs, edits, rowlog, dbAtStart,
                   nFetches, sinceFetch, lastStatus, cleanRerun, retryVars,
                   hubVars, progVars, remote>>

\* the session's view of a persistent row
View(id) == IF id \in DOMAIN dirty THEN dirty[id] ELSE db[id]

\* lines 248-267: the enrichment query; nothing to enrich returns 0 at once
EnrichQuery ==
    /\ pc = "enrich_query"
    /\ LET eligible == {id \in DOMAIN db : Eligible(View(id))}
       IN  IF eligible = {}
              THEN /\ pc' = "returned"
                   /\ result' = Success(added_count + updated_count, 0)
                   /\ UNCHANGED anime_to_enrich
              ELSE /\ \E order \in Orderings(eligible) : anime_to_enrich' = order
                   /\ pc' = "enrich_fetch"
                   /\ UNCHANGED result
    /\ eidx' = 1
    /\ enriched_count' = 0
    /\ UNCHANGED <<storeVars, hdrs, anime_row_dicts, idx, cells_to_update, flushed,
                   pending, dirty, added_count, updated_count, nextUuid, bookVars,
                   retryVars,
                   hubVars, progVars, remote>>

\* lines 276-285: fetch one entry and merge what came back
EnrichFetch(resp) ==
    /\ pc = "enrich_fetch"
    /\ eidx <= Len(anime_to_enrich)
    /\ LET id == anime_to_enrich[eidx]
           mal_data == FetchMalData(resp)
       IN  IF mal_data # None
              THEN /\ dirty' = [i \in DOMAIN dirty \cup {id} |->
                                   IF i = id THEN EnrichEntry(View(id), mal_data[1])
                                   ELSE dirty[i]]
                   /\ enriched_count' = enriched_count + 1
              ELSE UNCHANGED <<dirty, enriched_count>>
    /\ nFetches' = nFetches + 1
    /\ sinceFetch' = 0
    /\ lastStatus' = resp.status
    /\ pc' = "enrich_sleep"
    /\ UNCHANGED <<storeVars, hdrs, anime_row_dicts, idx, cells_to_update, flushed,
                   pending, added_count, updated_count, anime_to_enrich, eidx, result,
                   nextUuid, runs, edits, rowlog, dbAtStart, dbAtCommit, nCommits,
                   cleanRerun, retryVars,
                   hubVars, progVars, remote>>

\* line 288: the pacing sleep that ends every iteration
EnrichSleep ==
    /\ pc = "enrich_sleep"
    /\ sinceFetch' = sinceFetch +
           PacingDelay(IF lastStatus = "200" THEN Some("data") ELSE None)
    /\ eidx' = eidx + 1
    /\ pc' = IF eidx + 1 > Len(anime_to_enrich) THEN "enrich_commit" ELSE "enrich_fetch"
    /\ UNCHANGED <<storeVars, hdrs, anime_row_dicts, idx, cells_to_update, flushed,
                   pending, dirty, added_count, updated_count, anime_to_enrich,
                   enriched_count, result, nextUuid, runs, edits, rowlog, dbAtStart,
                   dbAtCommit, nCommits, nFetches, lastStatus, cleanRerun,
                   retryVars,
                   hubVars, progVars, remote>>

\* lines 290-291, 481-489: enrichment's own commit, then the run returns
EnrichCommit ==
    /\ pc = "enrich_commit"
    /\ CanFlush(db, pending)
    /\ db' = Flushed(db, pending, dirty)
    /\ pending' = <<>>
    /\ dirty' = EmptyMap
    /\ nCommits' = nCommits + 1
    /\ pc' = "returned"
    /\ result' = Success(added_count + updated_count, enriched_count)
    /\ UNCHANGED <<headers, sheet, hdrs, anime_row_dicts, idx, cells_to_update,
                   flushed, added_count, updated_count, anime_to_enrich, eidx,
                   enriched_count, nextUuid, runs, edits, rowlog, dbAtStart,
                   dbAtCommit, nFetches, sinceFetch, lastStatus, cleanRerun,
                   retryVars,
                   hubVars, progVars, remote>>

\* lines 491-494: a step of the try block raises (a query or commit fails in
\* the store, a write-back fails in execute_with_retry): rollback, re-raise
SyncRaise ==
    /\ pc \in {"loop", "flush", "commit", "enrich_query", "enrich_commit"}
    /\ LET s == Rollback([new |-> pending, staged |-> dirty])
       IN  pending' = s.new /\ dirty' = s.staged
    /\ pc' = "raised"
    /\ result' = Raised(FailureAt(pc))
    /\ UNCHANGED <<storeVars, hdrs, anime_row_dicts, idx, cells_to_update, flushed,
                   added_count, updated_count, anime_to_enrich, eidx, enriched_count,
                   nextUuid, bookVars, retryVars,
                   hubVars, progVars, remote>>

-----------------------------------------------------------------------------
(* populate_anime_series_tab (src/sheets_sync.py:127-215) *)

MaxHubRows == 2

\* the spreadsheet has no "Anime Series" tab (WorksheetNotFound, line 136)
NoHub == [exists |-> FALSE, header |-> FALSE, rows |-> <<>>]

\* the header row of the tab (lines 143-150); alt_name stands for the four
\* columns the function leaves blank
HubHeaders == {"system_id", "series_en", "alt_name"}

HubCellValues(col) ==
    CASE col = "system_id" -> {<<>>, <<" ">>, <<"h">>}
      [] col = "series_en" -> {<<>>, <<"X">>, <<"X", " ">>, <<"Y">>}
      [] OTHER -> {<<>>, <<"n">>}

HubRows ==
    {[system_id |-> i, series_en |-> e, alt_name |-> a] :
        i \in HubCellValues("system_id"), e \in HubCellValues("series_en"),
        a \in HubCellValues("alt_name")}

\* the function appends a name only when no row carries it: the rows it
\* maintains never share a name
UniqueNames(rows) ==
    \A i, j \in 1..Len(rows) :
        (Strip(rows[i].series_en) # <<>> /\ Strip(rows[i].series_en) = Strip(rows[j].series_en))
            => i = j

HubTabs ==
    {NoHub, [exists |-> TRUE, header |-> FALSE, rows |-> <<>>]} \cup
    {[exists |-> TRUE, header |-> TRUE, rows |-> rows] :
        rows \in {r \in UNION {[1..n -> HubRows] : n \in 0..MaxHubRows} : UniqueNames(r)}}

\* the batch: the rows of the primary tab, of which only series_en is read
BatchRows == {[series_en |-> c] : c \in {<<>>, <<"X">>, <<" ", "X">>, <<"Y">>}}

Batches == UNION {[1..n -> BatchRows] : n \in 0..MaxRows}

\* lines 163-172: the rows whose system_id cell is blank, in order
RECURSIVE BlankIdRows_All(_, _)
BlankIdRows_All(rows, i) ==
    IF i > Len(rows) THEN <<>> ELSE <<i>> \o BlankIdRows_All(rows, i + 1)

RECURSIVE BlankIdRows(_, _)
BlankIdRows(rows, i) ==
    IF i > Len(rows) THEN <<>>
    ELSE (IF Strip(rows[i].system_id) = <<>> THEN <<i>> ELSE <<>>)
             \o BlankIdRows(rows, i + 1)

\* gspread.Cell(row=i, col=sys_id_col + 1, value=sys_id), one per such row
RECURSIVE HubIdPatches(_, _)
HubIdPatches(blank, first) ==
    IF blank = <<>> THEN <<>>
    ELSE <<Patch(Head(blank) + 1, "system_id", Uuid(first))>>
             \o HubIdPatches(Tail(blank), first + 1)

\* lines 174-176: existing_series_tracker after the scan of the hub rows
Tracker(rows) ==
    {CleanStr(rows[i].series_en)[1] :
        i \in {j \in 1..Len(rows) : CleanStr(rows[j].series_en) # None}}

\* lines 187-206: new_series_to_append
RECURSIVE NewSeries_NoTracking(_, _, _)
NewSeries_NoTracking(batch, tracker, first) ==
    IF batch = <<>> THEN <<>>
    ELSE LET s_en == CleanStr(Get(Head(batch), "series_en"))
         IN  IF s_en = None \/ s_en[1] \in tracker
                THEN NewSeries_NoTracking(Tail(batch), tracker, first)
                ELSE <<[system_id |-> Uuid(first), series_en |-> s_en[1], alt_name |-> <<>>]>>
                         \o NewSeries_NoTracking(Tail(batch), tracker, first + 1)

RECURSIVE NewSeries(_, _, _)
NewSeries(batch, tracker, first) ==
    IF batch = <<>> THEN <<>>
    ELSE LET s_en == CleanStr(Get(Head(batch), "series_en"))
         IN  IF s_en = None \/ s_en[1] \in tracker
                THEN NewSeries(Tail(batch), tracker, first)
                ELSE <<[system_id |-> Uuid(first), series_en |-> s_en[1], alt_name |-> <<>>]>>
                         \o NewSeries(Tail(batch), tracker \cup {s_en[1]}, first + 1)

HubCall(op) == Call("populate_anime_series_tab", op, TRUE)

\* lines 134-138: obtain the tab; without it the function returns at once
HubOpen ==
    /\ hpc = "open"
    /\ remote' = remote \cup {HubCall("spreadsheet.worksheet")}
    /\ hpc' = IF hubTab.exists THEN "read" ELSE "skipped"
    /\ UNCHANGED <<hubTab, series_rows, hub_cells, existing_series_tracker,
                   new_series_to_append, hubAtCall, retryVars, syncVars, progVars>>

\* lines 140-176: read the tab and scan its rows
HubRead ==
    /\ hpc = "read"
    /\ remote' = remote \cup {HubCall("series_sheet.get_all_values")}
    /\ IF ~hubTab.header
          THEN /\ hpc' = "header"
               /\ UNCHANGED <<series_rows, hub_cells, existing_series_tracker, nextUuid>>
          ELSE LET blank == BlankIdRows(hubTab.rows, 1)
               IN  /\ nextUuid + Len(blank) - 1 <= Len(UuidTokens)
                   /\ series_rows' = hubTab.rows
                   /\ hub_cells' = HubIdPatches(blank, nextUuid)
                   /\ nextUuid' = nextUuid + Len(blank)
                   /\ existing_series_tracker' = Tracker(hubTab.rows)
                   /\ hpc' = "patch"
    /\ UNCHANGED <<hubTab, new_series_to_append, hubAtCall, retryVars, storeVars,
                   pc, hdrs, anime_row_dicts, idx, cells_to_update, flushed, pending,
                   dirty, added_count, updated_count, anime_to_enrich, eidx,
                   enriched_count, result, bookVars, progVars>>

\* lines 142-152: an empty tab gets the header row
HubHeader ==
    /\ hpc = "header"
    /\ remote' = remote \cup {HubCall("series_sheet.append_row")}
    /\ hubTab' = [hubTab EXCEPT !.header = TRUE]
    /\ series_rows' = <<>>
    /\ hub_cells' = <<>>
    /\ existing_series_tracker' = {}
    /\ hpc' = "patch"
    /\ UNCHANGED <<new_series_to_append, hubAtCall, retryVars, syncVars, progVars>>

\* lines 178-206: write the minted identifiers back, then collect the names
\* of the batch that no hub row carries
HubPatch ==
    /\ hpc = "patch"
    /\ IF hub_cells # <<>>
          THEN /\ hubTab' = [hubTab EXCEPT !.rows = ApplyPatches(@, hub_cells)]
               /\ remote' = remote \cup {HubCall("series_sheet.update_cells")}
          ELSE UNCHANGED <<hubTab, remote>>
    /\ LET new == NewSeries(anime_row_dicts, existing_series_tracker, nextUuid)
       IN  /\ nextUuid + Len(new) - 1 <= Len(UuidTokens)
           /\ new_series_to_append' = new
           /\ existing_series_tracker' =
                  existing_series_tracker \cup {new[i].series_en : i \in 1..Len(new)}
           /\ nextUuid' = nextUuid + Len(new)
    /\ hpc' = "append"
    /\ UNCHANGED <<series_rows, hub_cells, hubAtCall, retryVars, storeVars,
                   pc, hdrs, anime_row_dicts, idx, cells_to_update, flushed, pending,
                   dirty, added_count, updated_count, anime_to_enrich, eidx,
                   enriched_count, result, bookVars, progVars>>

\* lines 208-215: append the new rows
HubAppend ==
    /\ hpc = "append"
    /\ IF new_series_to_append # <<>>
          THEN /\ hubTab' = [hubTab EXCEPT !.rows = @ \o new_series_to_append]
               /\ remote' = remote \cup {HubCall("series_sheet.append_rows")}
          ELSE UNCHANGED <<hubTab, remote>>
    /\ hpc' = "done"
    /\ UNCHANGED <<series_rows, hub_cells, existing_series_tracker,
                   new_series_to_append, hubAtCall, retryVars, syncVars, progVars>>

\* the remote call each position makes, if it makes one
HubCallAt(p) ==
    CASE p = "open" -> {HubCall("spreadsheet.worksheet")}
      [] p = "read" -> {HubCall("series_sheet.get_all_values")}
      [] p = "header" -> {HubCall("series_sheet.append_row")}
      [] p = "patch" -> IF hub_cells # <<>> THEN {HubCall("series_sheet.update_cells")} ELSE {}
      [] p = "append" ->
            IF new_series_to_append # <<>> THEN {HubCall("series_sheet.append_rows")} ELSE {}
      [] OTHER -> {}

\* a remote call raises (execute_with_retry gives up, or another error): the
\* function has no handler but the one for WorksheetNotFound
HubRaise ==
    /\ HubCallAt(hpc) # {}
    /\ remote' = remote \cup HubCallAt(hpc)
    /\ hpc' = "raised"
    /\ UNCHANGED <<hubTab, series_rows, hub_cells, existing_series_tracker,
                   new_series_to_append, hubAtCall, retryVars, syncVars, progVars>>

-----------------------------------------------------------------------------
(* update_episode_progress_in_sheet (src/sheets_sync.py:500-515) *)

MaxEpFin == 12

ProgressHeaderRows == {{"system_id", "studio", "ep_fin"}, {"system_id", "studio"}}

ProgressCellValues(col) ==
    CASE col = "system_id" -> {<<"a">>, <<"b">>, <<"b", " ">>}
      [] col = "studio" -> {<<>>, <<"b">>}
      [] col = "ep_fin" -> {<<>>, <<"1">>}
      [] OTHER -> {<<>>}

ProgressRows(h) ==
    {r \in [h -> UNION {ProgressCellValues(c) : c \in h}] :
        \A c \in h : r[c] \in ProgressCellValues(c)}

ProgressSheets(h) == UNION {[1..n -> ProgressRows(h)] : n \in 0..MaxRows}

ProgressIds == {<<"a">>, <<"b">>, <<"c">>}

\* sheet.find(query): the first cell of the worksheet, row by row, whose
\* value is the query, whatever its column; None when there is none.  Data row
\* i is sheet row i + 1 (no identifier used here is the text of a header cell).
Find(sh, query) ==
    LET hits == {i \in 1..Len(sh) : \E c \in DOMAIN sh[i] : sh[i][c] = query}
    IN  IF hits = {} THEN None
        ELSE Some((CHOOSE i \in hits : \A j \in hits : i <= j) + 1)

ProgressCall(op, wrapped) == Call("update_episode_progress_in_sheet", op, wrapped)

\* line 502: get_google_sheet("Anime") = get_google_spreadsheet().worksheet(...)
ProgressOpen ==
    /\ ppc = "open"
    /\ remote' = remote \cup {ProgressCall("gc.open", FALSE),
                               ProgressCall("spreadsheet.worksheet", FALSE)}
    /\ ppc' = "find"
    /\ UNCHANGED <<p_system_id, p_ep_fin, p_cell, p_error, sheetAtCall, dbAtCall, retryVars,
                   syncVars, hubVars>>

\* lines 504-506
ProgressFind ==
    /\ ppc = "find"
    /\ remote' = remote \cup {ProgressCall("sheet.find", TRUE)}
    /\ LET cell == Find(sheet, p_system_id)
       IN  IF cell = None
              THEN ppc' = "raised" /\ p_error' = "not_found" /\ UNCHANGED p_cell
              ELSE ppc' = "headers" /\ p_cell' = cell /\ UNCHANGED p_error
    /\ UNCHANGED <<p_system_id, p_ep_fin, sheetAtCall, dbAtCall, retryVars, syncVars, hubVars>>

\* lines 508-512
ProgressHeaders ==
    /\ ppc = "headers"
    /\ remote' = remote \cup {ProgressCall("sheet.row_values", TRUE)}
    /\ IF "ep_fin" \in headers
          THEN ppc' = "update" /\ UNCHANGED p_error
          ELSE ppc' = "raised" /\ p_error' = "no_ep_fin_column"
    /\ UNCHANGED <<p_system_id, p_ep_fin, p_cell, sheetAtCall, dbAtCall, retryVars, syncVars,
                   hubVars>>

\* lines 514-515: sheet.update_cell(cell.row, col_index, ep_fin)
ProgressUpdate ==
    /\ ppc = "update"
    /\ remote' = remote \cup {ProgressCall("sheet.update_cell", TRUE)}
    /\ sheet' = [sheet EXCEPT ![p_cell[1] - 1]["ep_fin"] = StrOf(p_ep_fin)]
    /\ ppc' = "returned"
    /\ UNCHANGED <<p_system_id, p_ep_fin, p_cell, p_error, sheetAtCall, dbAtCall, retryVars,
                   headers, db, runVars, bookVars, hubVars>>

ProgressCallAt(p) ==
    CASE p = "open" -> {ProgressCall("gc.open", FALSE)}
      [] p = "find" -> {ProgressCall("sheet.find", TRUE)}
      [] p = "headers" -> {ProgressCall("sheet.row_values", TRUE)}
      [] p = "update" -> {ProgressCall("sheet.update_cell", TRUE)}
      [] OTHER -> {}

\* a remote call raises
ProgressRaise ==
    /\ ProgressCallAt(ppc) # {}
    /\ remote' = remote \cup ProgressCallAt(ppc)
    /\ ppc' = "raised"
    /\ p_error' = "api_error"
    /\ UNCHANGED <<p_system_id, p_ep_fin, p_cell, sheetAtCall, dbAtCall, retryVars, syncVars,
                   hubVars>>

-----------------------------------------------------------------------------
(* update_anime_progress (src/main.py:103-126) *)

\* lines 110-115: no record is a 404; else anime.ep_fin = progress.ep_fin and
\* db.commit()
RouteUpdate ==
    /\ ppc = "route"
    /\ IF p_system_id \in DOMAIN db
          THEN /\ db' = [db EXCEPT ![p_system_id]["ep_fin"] = Some(p_ep_fin)]
               /\ ppc' = "open"
               /\ UNCHANGED p_error
          ELSE /\ ppc' = "raised"
               /\ p_error' = "http_404"
               /\ UNCHANGED db
    /\ UNCHANGED <<headers, sheet, runVars, bookVars, p_system_id, p_ep_fin, p_cell,
                   sheetAtCall, dbAtCall, retryVars, hubVars, remote>>

\* lines 110-115: the query or the commit fails in the store
RouteRaise ==
    /\ ppc = "route"
    /\ ppc' = "raised"
    /\ p_error' = "store_error"
    /\ UNCHANGED <<p_system_id, p_ep_fin, p_cell, sheetAtCall, dbAtCall, retryVars,
                   syncVars, hubVars, remote>>

\* POST /api/sync once the progress request is answered
RouteSync ==
    /\ ppc \in {"returned", "raised"}
    /\ SyncStart

-----------------------------------------------------------------------------
(* The human editor, between runs *)

\* between runs nothing of the last run is left but the two stores
Forgotten ==
    /\ pc' = "idle"
    /\ hdrs' = {}
    /\ anime_row_dicts' = <<>>
    /\ idx' = 1
    /\ cells_to_update' = <<>>
    /\ flushed' = 0
    /\ pending' = <<>>
    /\ dirty' = EmptyMap
    /\ added_count' = 0
    /\ updated_count' = 0
    /\ anime_to_enrich' = <<>>
    /\ eidx' = 1
    /\ enriched_count' = 0
    /\ result' = NoResult
    /\ rowlog' = <<>>
    /\ dbAtStart' = db
    /\ dbAtCommit' = db
    /\ nCommits' = 0
    /\ nFetches' = 0
    /\ sinceFetch' = 0
    /\ lastStatus' = ""
    /\ cleanRerun' = FALSE
    /\ remote' = {}

EditCell(i, col, v) ==
    /\ pc \in {"returned", "raised"}
    /\ edits < MaxEdits
    /\ i \in DOMAIN sheet
    /\ col \in headers
    /\ v \in CellValues(col)
    /\ v # sheet[i][col]
    /\ sheet' = [sheet EXCEPT ![i][col] = v]
    /\ edits' = edits + 1
    /\ Forgotten
    /\ UNCHANGED <<headers, db, nextUuid, runs, retryVars,
                   hubVars, progVars>>

DeleteRow(i) ==
    /\ pc \in {"returned", "raised"}
    /\ edits < MaxEdits
    /\ i \in DOMAIN sheet
    /\ sheet' = [j \in 1..(Len(sheet) - 1) |-> IF j < i THEN sheet[j] ELSE sheet[j + 1]]
    /\ edits' = edits + 1
    /\ Forgotten
    /\ UNCHANGED <<headers, db, nextUuid, runs, retryVars,
                   hubVars, progVars>>

-----------------------------------------------------------------------------
(* Specifications *)

HubOff ==
    /\ hubTab = NoHub
    /\ hpc = "off"
    /\ series_rows = <<>>
    /\ hub_cells = <<>>
    /\ existing_series_tracker = {}
    /\ new_series_to_append = <<>>
    /\ hubAtCall = NoHub

ProgressOff ==
    /\ ppc = "off"
    /\ p_system_id = <<>>
    /\ p_ep_fin = 0
    /\ p_cell = None
    /\ p_error = ""
    /\ sheetAtCall = <<>>
    /\ dbAtCall = EmptyMap

RetryOff ==
    /\ rMax = 0
    /\ rOp = "worksheet"
    /\ rpc = "off"
    /\ attempt = 0
    /\ calls = 0
    /\ waits = <<>>
    /\ hist = <<>>
    /\ rOut = None

\* Base.metadata.create_all on an empty database; the spreadsheet is whatever
\* its editor made it
SyncStartState ==
    /\ headers \in HeaderRows
    /\ sheet \in SheetsOf(headers)
    /\ db = EmptyMap
    /\ pc = "idle"
    /\ hdrs = {}
    /\ anime_row_dicts = <<>>
    /\ idx = 1
    /\ cells_to_update = <<>>
    /\ flushed = 0
    /\ pending = <<>>
    /\ dirty = EmptyMap
    /\ added_count = 0
    /\ updated_count = 0
    /\ anime_to_enrich = <<>>
    /\ eidx = 1
    /\ enriched_count = 0
    /\ result = NoResult
    /\ nextUuid = 1
    /\ runs = 0
    /\ edits = 0
    /\ rowlog = <<>>
    /\ dbAtStart = EmptyMap
    /\ dbAtCommit = EmptyMap
    /\ nCommits = 0
    /\ nFetches = 0
    /\ sinceFetch = 0
    /\ lastStatus = ""
    /\ cleanRerun = FALSE

SyncOff ==
    /\ headers = {}
    /\ sheet = <<>>
    /\ db = EmptyMap
    /\ pc = "off"
    /\ hdrs = {}
    /\ anime_row_dicts = <<>>
    /\ idx = 1
    /\ cells_to_update = <<>>
    /\ flushed = 0
    /\ pending = <<>>
    /\ dirty = EmptyMap
    /\ added_count = 0
    /\ updated_count = 0
    /\ anime_to_enrich = <<>>
    /\ eidx = 1
    /\ enriched_count = 0
    /\ result = NoResult
    /\ nextUuid = 1
    /\ runs = 0
    /\ edits = 0
    /\ rowlog = <<>>
    /\ dbAtStart = EmptyMap
    /\ dbAtCommit = EmptyMap
    /\ nCommits = 0
    /\ nFetches = 0
    /\ sinceFetch = 0
    /\ lastStatus = ""
    /\ cleanRerun = FALSE

RetryInit == RetryStart /\ SyncOff /\ HubOff /\ ProgressOff /\ remote = {}

SpecRetry == RetryInit /\ [][RetryNext]_vars

\* The code runs one step after another: the wrapped call returns or raises,
\* and time.sleep returns.
SpecRetryFair == RetryInit /\ [][RetryNext]_vars /\ WF_vars(RetryNext)

MaxStored == 2

AiringStatuses == {None, Some(<<"Airing">>), Some(NotYetAired)}

\* the rows anime_library can hold under one system_id
StoredEntries(id) ==
    {[system_id |-> id, studio |-> None, series_season |-> None, airing_type |-> None,
      ep_total |-> None, ep_fin |-> None, mal_link |-> None, alt_name |-> None,
      airing_status |-> a, mal_id |-> m, cover_image_url |-> c, mal_rating |-> r] :
        a \in AiringStatuses, m \in {None, Some(7)},
        c \in {None, Some("img1")}, r \in {None, Some(8)}}

StoredIds == {<<UuidTokens[i]>> : i \in 1..MaxStored}

RECURSIVE StoresOver(_)
StoresOver(ids) ==
    IF ids = {} THEN {EmptyMap}
    ELSE LET id == CHOOSE x \in ids : TRUE
         IN  {[k \in DOMAIN f \cup {id} |-> IF k = id THEN e ELSE f[k]] :
                 f \in StoresOver(ids \ {id}), e \in StoredEntries(id)}

Stores == UNION {StoresOver(ids) : ids \in SUBSET StoredIds}

\* line 481: enrich_anime_database(db) is entered right after the
\* reconciliation commit of a run over a tab that has no data rows left
EnrichInit ==
    /\ RetryOff
    /\ HubOff
    /\ ProgressOff
    /\ remote = Issued(SyncReadCalls, 4)
    /\ headers = AllHeaders
    /\ sheet = <<>>
    /\ db \in Stores
    /\ pc = "enrich_query"
    /\ hdrs = AllHeaders
    /\ anime_row_dicts = <<>>
    /\ idx = 1
    /\ cells_to_update = <<>>
    /\ flushed = 0
    /\ pending = <<>>
    /\ dirty = EmptyMap
    /\ added_count = 0
    /\ updated_count = 0
    /\ anime_to_enrich = <<>>
    /\ eidx = 1
    /\ enriched_count = 0
    /\ result = NoResult
    /\ nextUuid = MaxStored + 1
    /\ runs = 1
    /\ edits = 0
    /\ rowlog = <<>>
    /\ dbAtStart = db
    /\ dbAtCommit = db
    /\ nCommits = 1
    /\ nFetches = 0
    /\ sinceFetch = 0
    /\ lastStatus = ""
    /\ cleanRerun = FALSE

EnrichNext ==
    \/ EnrichQuery
    \/ \E resp \in FetchResponses : EnrichFetch(resp)
    \/ EnrichSleep
    \/ EnrichCommit
    \/ SyncRaise

SpecEnrich == EnrichInit /\ [][EnrichNext]_vars

\* line 328: populate_anime_series_tab(spreadsheet, anime_row_dicts) is called
\* with the rows just read
HubInit ==
    /\ RetryOff
    /\ ProgressOff
    /\ remote = Issued(SyncReadCalls, 3)
    /\ hubTab \in HubTabs
    /\ hpc = "open"
    /\ series_rows = <<>>
    /\ hub_cells = <<>>
    /\ existing_series_tracker = {}
    /\ new_series_to_append = <<>>
    /\ hubAtCall = hubTab
    /\ headers = {"series_en"}
    /\ sheet \in Batches
    /\ db = EmptyMap
    /\ pc = "populate"
    /\ hdrs = headers
    /\ anime_row_dicts = sheet
    /\ idx = 1
    /\ cells_to_update = <<>>
    /\ flushed = 0
    /\ pending = <<>>
    /\ dirty = EmptyMap
    /\ added_count = 0
    /\ updated_count = 0
    /\ anime_to_enrich = <<>>
    /\ eidx = 1
    /\ enriched_count = 0
    /\ result = NoResult
    /\ nextUuid = 1
    /\ runs = 1
    /\ edits = 0
    /\ rowlog = <<>>
    /\ dbAtStart = EmptyMap
    /\ dbAtCommit = EmptyMap
    /\ nCommits = 0
    /\ nFetches = 0
    /\ sinceFetch = 0
    /\ lastStatus = ""
    /\ cleanRerun = FALSE

HubNext ==
    \/ HubOpen
    \/ HubRead
    \/ HubHeader
    \/ HubPatch
    \/ HubAppend
    \/ HubRaise

SpecHub == HubInit /\ [][HubNext]_vars

\* a call of update_episode_progress_in_sheet(system_id, ep_fin), no sync run
\* in progress
ProgressInit ==
    /\ RetryOff
    /\ HubOff
    /\ remote = {}
    /\ ppc = "open"
    /\ p_system_id \in ProgressIds
    /\ p_ep_fin \in {0, MaxEpFin}
    /\ p_cell = None
    /\ p_error = ""
    /\ headers \in ProgressHeaderRows
    /\ sheet \in ProgressSheets(headers)
    /\ sheetAtCall = sheet
    /\ db = EmptyMap
    /\ dbAtCall = db
    /\ pc = "off"
    /\ hdrs = {}
    /\ anime_row_dicts = <<>>
    /\ idx = 1
    /\ cells_to_update = <<>>
    /\ flushed = 0
    /\ pending = <<>>
    /\ dirty = EmptyMap
    /\ added_count = 0
    /\ updated_count = 0
    /\ anime_to_enrich = <<>>
    /\ eidx = 1
    /\ enriched_count = 0
    /\ result = NoResult
    /\ nextUuid = 1
    /\ runs = 0
    /\ edits = 0
    /\ rowlog = <<>>
    /\ dbAtStart = EmptyMap
    /\ dbAtCommit = EmptyMap
    /\ nCommits = 0
    /\ nFetches = 0
    /\ sinceFetch = 0
    /\ lastStatus = ""
    /\ cleanRerun = FALSE

ProgressNext ==
    \/ ProgressOpen
    \/ ProgressFind
    \/ ProgressHeaders
    \/ ProgressUpdate
    \/ ProgressRaise

SpecProgress == ProgressInit /\ [][ProgressNext]_vars

-----------------------------------------------------------------------------
(* A sync run over a tab that has the season columns.                       *)

SeasonHeaders ==
    {"system_id", "series_en", "series_season", "series_season_en", "series_season_cn"}

SeasonHeaderRows == {SeasonHeaders, SeasonHeaders \ {"series_season"}}

SeasonCellValues(col) ==
    CASE col = "series_en" -> {<<>>, <<"X">>, <<"X", " ">>}
      [] col = "series_season" -> {<<>>, <<" ">>, <<"S">>}
      [] col = "series_season_en" ->
            {<<>>, <<"Season", "2">>, <<"x", " ", "season", " ", "2">>,
             <<"SEASON", " ", "2", " ", "part", " ", "1">>}
      [] col = "series_season_cn" ->
            {<<>>, <<"di", "er", "ji">>, <<"di", " ", "3", "ji">>,
             <<"di", "shi", "ji">>, <<"di", "shi", "yi", "ji">>}
      [] OTHER -> {<<>>}

SeasonRows(h) ==
    {[c \in h |-> full[c]] :
        full \in {[system_id |-> <<>>, series_en |-> e, series_season |-> v,
                   series_season_en |-> en, series_season_cn |-> cn] :
                      e \in SeasonCellValues("series_en"),
                      v \in SeasonCellValues("series_season"),
                      en \in SeasonCellValues("series_season_en"),
                      cn \in SeasonCellValues("series_season_cn")}}

SeasonSheets(h) == UNION {[1..n -> SeasonRows(h)] : n \in 0..MaxRows}

\* lines 302-336: the tab was read and the session opened; the loop is next
SeasonInit ==
    /\ RetryOff
    /\ HubOff
    /\ ProgressOff
    /\ remote = Issued(SyncReadCalls, 4)
    /\ headers \in SeasonHeaderRows
    /\ sheet \in SeasonSheets(headers)
    /\ db = EmptyMap
    /\ pc = LoopNext(1, Len(sheet), <<>>)
    /\ hdrs = headers
    /\ anime_row_dicts = sheet
    /\ idx = 1
    /\ cells_to_update = <<>>
    /\ flushed = 0
    /\ pending = <<>>
    /\ dirty = EmptyMap
    /\ added_count = 0
    /\ updated_count = 0
    /\ anime_to_enrich = <<>>
    /\ eidx = 1
    /\ enriched_count = 0
    /\ result = NoResult
    /\ nextUuid = 1
    /\ runs = MaxRuns
    /\ edits = MaxEdits
    /\ rowlog = <<>>
    /\ dbAtStart = EmptyMap
    /\ dbAtCommit = EmptyMap
    /\ nCommits = 0
    /\ nFetches = 0
    /\ sinceFetch = 0
    /\ lastStatus = ""
    /\ cleanRerun = FALSE

SeasonNext ==
    \/ ReconcileRow
    \/ FlushChunk
    \/ Commit
    \/ EnrichQuery
    \/ SyncRaise

SpecSeason == SeasonInit /\ [][SeasonNext]_vars

-----------------------------------------------------------------------------
(* A sync run over a tab that has the airing_type and ep_total columns.     *)

MovieHeaders == {"system_id", "airing_type", "ep_total"}

MovieHeaderRows == {MovieHeaders, MovieHeaders \ {"ep_total"}}

MovieCellValues(col) ==
    CASE col = "airing_type" ->
            {<<>>, <<"Movie">>, <<"MOVIE", " ">>, <<"movie">>, <<"Movie", "s">>, <<"TV">>}
      [] col = "ep_total" ->
            {<<>>, <<"1">>, <<" ", "1">>, <<"0", "1">>, <<"2">>, <<"1", ".", "0">>, <<"x">>}
      [] OTHER -> {<<>>}

MovieRows(h) ==
    {[c \in h |-> full[c]] :
        full \in {[system_id |-> <<>>, airing_type |-> a, ep_total |-> e] :
                      a \in MovieCellValues("airing_type"),
                      e \in MovieCellValues("ep_total")}}

MovieSheets(h) == UNION {[1..n -> MovieRows(h)] : n \in 0..MaxRows}

\* lines 302-336: the tab was read and the session opened; the loop is next
MovieInit ==
    /\ RetryOff
    /\ HubOff
    /\ ProgressOff
    /\ remote = Issued(SyncReadCalls, 4)
    /\ headers \in MovieHeaderRows
    /\ sheet \in MovieSheets(headers)
    /\ db = EmptyMap
    /\ pc = LoopNext(1, Len(sheet), <<>>)
    /\ hdrs = headers
    /\ anime_row_dicts = sheet
    /\ idx = 1
    /\ cells_to_update = <<>>
    /\ flushed = 0
    /\ pending = <<>>
    /\ dirty = EmptyMap
    /\ added_count = 0
    /\ updated_count = 0
    /\ anime_to_enrich = <<>>
    /\ eidx = 1
    /\ enriched_count = 0
    /\ result = NoResult
    /\ nextUuid = 1
    /\ runs = MaxRuns
    /\ edits = MaxEdits
    /\ rowlog = <<>>
    /\ dbAtStart = EmptyMap
    /\ dbAtCommit = EmptyMap
    /\ nCommits = 0
    /\ nFetches = 0
    /\ sinceFetch = 0
    /\ lastStatus = ""
    /\ cleanRerun = FALSE

SpecMovie == MovieInit /\ [][SeasonNext]_vars

-----------------------------------------------------------------------------
(* A sync run over a tab that has the mal_id and mal_link columns.          *)

MalHeaders == {"system_id", "mal_id", "mal_link"}

MalHeaderRows == {MalHeaders, MalHeaders \ {"mal_id"}}

MalCellValues(col) ==
    CASE col = "mal_id" -> {<<>>, <<" ">>, <<"7">>, <<"x">>}
      [] col = "mal_link" ->
            {<<>>, <<" ">>, <<"https://", MalUrl, "4", "2", "/", "x">>,
             <<"https://", MalUrl, "x">>, <<"https://", "anilist.co/anime/", "5">>}
      [] OTHER -> {<<>>}

MalRows(h) ==
    {[c \in h |-> full[c]] :
        full \in {[system_id |-> <<>>, mal_id |-> m, mal_link |-> l] :
                      m \in MalCellValues("mal_id"),
                      l \in MalCellValues("mal_link")}}

MalSheets(h) == UNION {[1..n -> MalRows(h)] : n \in 0..MaxRows}

\* lines 302-336: the tab was read and the session opened; the loop is next
MalInit ==
    /\ RetryOff
    /\ HubOff
    /\ ProgressOff
    /\ remote = Issued(SyncReadCalls, 4)
    /\ headers \in MalHeaderRows
    /\ sheet \in MalSheets(headers)
    /\ db = EmptyMap
    /\ pc = LoopNext(1, Len(sheet), <<>>)
    /\ hdrs = headers
    /\ anime_row_dicts = sheet
    /\ idx = 1
    /\ cells_to_update = <<>>
    /\ flushed = 0
    /\ pending = <<>>
    /\ dirty = EmptyMap
    /\ added_count = 0
    /\ updated_count = 0
    /\ anime_to_enrich = <<>>
    /\ eidx = 1
    /\ enriched_count = 0
    /\ result = NoResult
    /\ nextUuid = 1
    /\ runs = MaxRuns
    /\ edits = MaxEdits
    /\ rowlog = <<>>
    /\ dbAtStart = EmptyMap
    /\ dbAtCommit = EmptyMap
    /\ nCommits = 0
    /\ nFetches = 0
    /\ sinceFetch = 0
    /\ lastStatus = ""
    /\ cleanRerun = FALSE

MalNext ==
    \/ ReconcileRow
    \/ FlushChunk
    \/ Commit
    \/ EnrichQuery
    \/ \E resp \in FetchResponses : EnrichFetch(resp)
    \/ EnrichSleep
    \/ EnrichCommit
    \/ SyncRaise

SpecMal == MalInit /\ [][MalNext]_vars

-----------------------------------------------------------------------------
(* A call of the progress route, and the sync run after it.                 *)

\* the record anime_library holds under an identifier, five episodes seen
RouteEntry(id) ==
    [c \in Columns |->
        CASE c = "system_id" -> id
          [] c = "ep_fin" -> Some(5)
          [] OTHER -> None]

RouteStores ==
    {[id \in ids |-> RouteEntry(id)] : ids \in SUBSET {<<"a">>, <<"b">>}}

\* a request PATCH /api/anime/{system_id}/progress arrives
RouteInit ==
    /\ RetryOff
    /\ HubOff
    /\ remote = {}
    /\ ppc = "route"
    /\ p_system_id \in ProgressIds
    /\ p_ep_fin \in {0, MaxEpFin}
    /\ p_cell = None
    /\ p_error = ""
    /\ headers \in ProgressHeaderRows
    /\ sheet \in ProgressSheets(headers)
    /\ sheetAtCall = sheet
    /\ db \in RouteStores
    /\ dbAtCall = db
    /\ pc = "idle"
    /\ hdrs = {}
    /\ anime_row_dicts = <<>>
    /\ idx = 1
    /\ cells_to_update = <<>>
    /\ flushed = 0
    /\ pending = <<>>
    /\ dirty = EmptyMap
    /\ added_count = 0
    /\ updated_count = 0
    /\ anime_to_enrich = <<>>
    /\ eidx = 1
    /\ enriched_count = 0
    /\ result = NoResult
    /\ nextUuid = 1
    /\ runs = MaxRuns - 1
    /\ edits = 0
    /\ rowlog = <<>>
    /\ dbAtStart = db
    /\ dbAtCommit = db
    /\ nCommits = 0
    /\ nFetches = 0
    /\ sinceFetch = 0
    /\ lastStatus = ""
    /\ cleanRerun = FALSE

RouteNext ==
    \/ RouteUpdate
    \/ RouteRaise
    \/ ProgressOpen
    \/ ProgressFind
    \/ ProgressHeaders
    \/ ProgressUpdate
    \/ ProgressRaise
    \/ RouteSync
    \/ ReconcileRow
    \/ Commit
    \/ EnrichQuery
    \/ SyncRaise

SpecRoute == RouteInit /\ [][RouteNext]_vars

Init == RetryOff /\ SyncStartState /\ HubOff /\ ProgressOff /\ remote = {}

Next ==
    \/ SyncStart
    \/ SyncStartFails
    \/ ReconcileRow
    \/ FlushChunk
    \/ Commit
    \/ EnrichQuery
    \/ \E resp \in FetchResponses : EnrichFetch(resp)
    \/ EnrichSleep
    \/ EnrichCommit
    \/ SyncRaise
    \/ \E i \in 1..MaxRows, col \in AllHeaders :
           \E v \in CellValues(col) : EditCell(i, col, v)
    \/ \E i \in 1..MaxRows : DeleteRow(i)

Spec == Init /\ [][Next]_vars

-----------------------------------------------------------------------------
(* Claims about execute_with_retry *)

\* The claims' own reading of "the quota-exceeded (429) failure": an APIError
\* whose message contains 429.
QuotaFailure(o) ==
    /\ o.kind = "APIError"
    /\ \E i \in 1..Len(o.text) : o.text[i] = "429"

AllQuotaBefore(n) == \A i \in 1..(n - 1) : QuotaFailure(hist[i])

C2_OtherFailurePropagates ==
    (/\ hist # <<>>
     /\ hist[Len(hist)].kind # "ok"
     /\ ~QuotaFailure(hist[Len(hist)])) =>
        /\ rpc = "raised"
        /\ rOut = Some(hist[Len(hist)])
        /\ calls = Len(hist)
        /\ Len(waits) = Len(hist) - 1
        /\ AllQuotaBefore(Len(hist))

\* a non-quota APIError on the third invocation, after two quota failures
C2_Witness ==
    /\ rpc = "raised"
    /\ Len(hist) = 3
    /\ hist[3].kind = "APIError"
    /\ QuotaFailure(hist[1]) /\ QuotaFailure(hist[2])
    /\ Len(waits) = 2

RetryDone == rpc \in {"returned", "raised", "exhausted"}

C3_Safety ==
    /\ calls <= rMax
    /\ (rpc = "exhausted" =>
            /\ calls = rMax
            /\ Len(hist) = rMax
            /\ \A i \in 1..Len(hist) : QuotaFailure(hist[i])
            /\ rOut # None
            /\ rOut[1].kind = "Exception"
            /\ rOut[1].text[2] = rOp
            /\ rOut[1].budget = rMax)
    /\ ((Len(hist) = rMax /\ \A i \in 1..Len(hist) : QuotaFailure(hist[i]))
            => rpc \in {"loop", "sleep", "exhausted"})

\* C3: execute_with_retry always terminates; the operation is never invoked
\* more than max_retries times, and when every attempt raises the
\* quota-exceeded failure it is invoked exactly max_retries times and the
\* wrapper raises a terminal failure naming the operation and the budget.
C3_Terminates == [](C3_Safety) /\ <>(RetryDone)

\* the default budget of 3, used up
C3_Witness ==
    /\ rpc = "exhausted"
    /\ rMax = DefaultMaxRetries
    /\ calls = 3
    /\ rOut = Some(TerminalFailure(rOp, 3))

-----------------------------------------------------------------------------
(* Claims about sync_sheet_to_db and enrich_anime_database *)

Reconciling == pc \in {"loop", "flush", "commit"}

Enriching == pc \in {"enrich_query", "enrich_fetch", "enrich_sleep", "enrich_commit"}

FetchedValues(f) ==
    IF f = "cover_image_url" THEN {Some("img1"), Some("img2")} ELSE {Some(8)}

C4_StagedUntouched ==
    Reconciling =>
        \A id \in DOMAIN dirty : \A f \in {"cover_image_url", "mal_rating"} :
            id \in DOMAIN db /\ dirty[id][f] = db[id][f]

C4_Step ==
    \A id \in DOMAIN db : \A f \in {"cover_image_url", "mal_rating"} :
        /\ id \in DOMAIN db'
        /\ (db[id][f] # None => db'[id][f] # None)
        /\ (db'[id][f] # db[id][f] =>
                /\ pc = "enrich_commit"
                /\ db'[id][f] \in FetchedValues(f))

\* C4: once cover_image_url or mal_rating of a stored record is non-null, no
\* step of any sync run sets it to null: reconciling a row leaves both fields
\* of the record exactly as stored (staged and committed), and the only step
\* that changes them is enrichment's commit, which stores a non-null fetched
\* value.
C4_StickyFields == [](C4_StagedUntouched) /\ [][C4_Step]_vars

\* a later run reconciles (updates) a record whose cover image is already set
C4_Witness ==
    /\ pc = "commit"
    /\ runs = 2
    /\ \E id \in DOMAIN dirty :
          /\ db[id].cover_image_url = Some("img2")
          /\ db[id].mal_rating = None
          /\ dirty[id].cover_image_url = Some("img2")
          /\ dirty[id].studio # db[id].studio

Incoming(data, c) == IF c \in DOMAIN data THEN data[c] ELSE None

CountKind(k) == Cardinality({i \in 1..Len(rowlog) : rowlog[i].kind = k})

\* C5: when reconciliation finds an existing record for a row's system_id,
\* after the merge every field other than cover_image_url and mal_rating
\* equals the incoming normalized value of that row, also when that value is
\* absent and the stored one was not; the row is counted as updated.
C5_NonStickyOverwrite ==
    /\ \A i \in 1..Len(rowlog) :
          rowlog[i].kind = "updated" =>
              /\ rowlog[i].before # None
              /\ \A c \in Columns \ {"cover_image_url", "mal_rating"} :
                    rowlog[i].after[c] = Incoming(rowlog[i].data, c)
              /\ (Reconciling /\ \A j \in (i + 1)..Len(rowlog) : rowlog[j].id # rowlog[i].id)
                    => dirty[rowlog[i].id] = rowlog[i].after
    /\ updated_count = CountKind("updated")
    /\ added_count = CountKind("created")

\* stored studio "A", incoming studio absent, committed studio absent
C5_Witness ==
    /\ nCommits = 1
    /\ \E i \in 1..Len(rowlog) :
          /\ rowlog[i].kind = "updated"
          /\ rowlog[i].before[1].studio = Some(<<"A">>)
          /\ rowlog[i].data.studio = None
          /\ db[rowlog[i].id].studio = None
          /\ updated_count >= 1

IdPatches(r) ==
    {j \in 1..Len(cells_to_update) :
        cells_to_update[j].row = r + 1 /\ cells_to_update[j].col = "system_id"}

IsBlank(cell) == \A k \in 1..Len(cell) : cell[k] = " "

Fresh(i) ==
    /\ rowlog[i].id \notin DOMAIN dbAtStart
    /\ \A r \in 1..Len(anime_row_dicts) :
          Strip(anime_row_dicts[r]["system_id"]) # rowlog[i].id
    /\ \A j \in 1..Len(rowlog) : rowlog[j].id = rowlog[i].id => j = i

\* C6: every row that has a system_id cell which is blank or whitespace-only
\* gets a fresh identifier as its record's system_id
\* and exactly one queued patch, for that row's system_id cell, carrying it;
\* every row whose cell is non-blank keeps the identifier written there
\* (the cell's text without surrounding blanks) and gets no identifier patch.
C6_IdentifierAssignment ==
    \A i \in 1..Len(rowlog) :
        "system_id" \in DOMAIN anime_row_dicts[rowlog[i].row] =>
            LET r == rowlog[i].row
                cell == anime_row_dicts[r]["system_id"]
            IN  /\ r = i
                /\ rowlog[i].data.system_id = rowlog[i].id
                /\ rowlog[i].after.system_id = rowlog[i].id
                /\ IF IsBlank(cell)
                      THEN /\ Fresh(i)
                           /\ Cardinality(IdPatches(r)) = 1
                           /\ \A j \in IdPatches(r) : cells_to_update[j].value = rowlog[i].id
                      ELSE /\ rowlog[i].id = Strip(cell)
                           /\ IdPatches(r) = {}

\* a whitespace-only cell and a cell that already holds an identifier
C6_Witness ==
    /\ "system_id" \in hdrs
    /\ Len(rowlog) = 2
    /\ anime_row_dicts[1]["system_id"] = <<" ">>
    /\ anime_row_dicts[2]["system_id"] = <<"a", " ">>
    /\ rowlog[2].id = <<"a">>
    /\ Len(cells_to_update) = 1

\* C7: a sync run that starts right after a successful run, the spreadsheet
\* not edited in between, creates no record (every row counts as updated) and
\* queues no identifier patch.
C7_Idempotence ==
    cleanRerun =>
        /\ added_count = 0
        /\ updated_count = Len(rowlog)
        /\ \A j \in 1..Len(cells_to_update) : cells_to_update[j].col # "system_id"

\* C7 on tabs that have a system_id column
C7_IdempotenceWithIdColumn == "system_id" \in hdrs => C7_Idempotence

C7_RerunHappens ==
    /\ cleanRerun
    /\ "system_id" \in hdrs
    /\ Len(rowlog) = 2
    /\ pc = "returned"

Written(r, c) ==
    {j \in 1..flushed : cells_to_update[j].row = r + 1 /\ cells_to_update[j].col = c}

\* C8: a run that raises before its reconciliation commit leaves the committed
\* store as it was when the run started and nothing staged in the session, the
\* failure reaches the caller, and the patch chunks written before the failure
\* stay in the spreadsheet (no other cell differs from what the run read).
C8_RollbackOnFailure ==
    (pc = "raised" /\ nCommits = 0) =>
        /\ db = dbAtStart
        /\ pending = <<>>
        /\ dirty = EmptyMap
        /\ result.kind = "raise"
        /\ result.error \in {"sheet_error", "store_error", "open_error"}
        /\ result.error # "open_error" =>
              /\ headers = hdrs
              /\ Len(sheet) = Len(anime_row_dicts)
              /\ \A r \in 1..Len(sheet) : \A c \in hdrs :
                    IF Written(r, c) = {}
                       THEN sheet[r][c] = anime_row_dicts[r][c]
                       ELSE \E j \in Written(r, c) : sheet[r][c] = cells_to_update[j].value

\* the second patch chunk fails: the first stays written, the two staged
\* records are gone
C8_Witness ==
    /\ pc = "raised"
    /\ nCommits = 0
    /\ result.error = "sheet_error"
    /\ flushed = 1
    /\ Len(cells_to_update) = 2
    /\ added_count = 2
    /\ sheet[1]["system_id"] = cells_to_update[1].value
    /\ sheet # anime_row_dicts

LastFor(id) ==
    rowlog[CHOOSE i \in 1..Len(rowlog) :
              /\ rowlog[i].id = id
              /\ \A j \in (i + 1)..Len(rowlog) : rowlog[j].id # id]

AllUpsertsIn(d) ==
    \A i \in 1..Len(rowlog) :
        /\ rowlog[i].id \in DOMAIN d
        /\ \A c \in EntryKeys : d[rowlog[i].id][c] = LastFor(rowlog[i].id).after[c]

\* C9: within one run the upserts of the reconciliation loop are committed by
\* exactly one commit, after the last row and before the first metadata
\* fetch; enrichment's updates are committed by one separate commit after
\* its loop; a failure during enrichment leaves the committed reconciliation
\* in the store.
C9_CommitOrdering ==
    /\ Reconciling => (nCommits = 0 /\ nFetches = 0 /\ db = dbAtStart)
    /\ Enriching =>
          /\ nCommits = 1
          /\ Len(rowlog) = Len(anime_row_dicts)
          /\ db = dbAtCommit
          /\ AllUpsertsIn(db)
    /\ nFetches > 0 => nCommits >= 1
    /\ (pc = "returned" /\ result.kind = "success") =>
          /\ nCommits = (IF anime_to_enrich = <<>> THEN 1 ELSE 2)
          /\ nFetches = Len(anime_to_enrich)
          /\ AllUpsertsIn(db)
    /\ (pc = "raised" /\ nCommits >= 1) =>
          /\ nCommits = 1
          /\ db = dbAtCommit
          /\ AllUpsertsIn(db)

\* enrichment's commit fails after a fetch: the record created by the
\* reconciliation stays committed, without the fetched cover
C9_Witness ==
    /\ pc = "raised"
    /\ nCommits = 1
    /\ nFetches = 1
    /\ lastStatus = "200"
    /\ enriched_count = 1
    /\ db # dbAtStart
    /\ \E id \in DOMAIN db : id \notin DOMAIN dbAtStart /\ db[id].cover_image_url = None

C10_BeforeFetch ==
    (nFetches > 0 /\ pc \in {"enrich_fetch", "enrich_commit"}) => sinceFetch >= 2

C10_FetchStep ==
    (nFetches' = nFetches + 1 /\ nFetches > 0) => sinceFetch >= 2

\* C10: within one enrichment run, between two consecutive fetches of the
\* metadata API at least 2 seconds of pacing sleep pass, and the sleep follows
\* every entry whatever the outcome of its fetch.
C10_Pacing == [](C10_BeforeFetch) /\ [][C10_FetchStep]_vars

\* two fetches in one run, neither of which returned data
C10_Witness ==
    /\ nFetches = 2
    /\ enriched_count = 0
    /\ lastStatus = "429"
    /\ pc = "enrich_commit"
    /\ sinceFetch = 2

-----------------------------------------------------------------------------
(* Claims about enrich_anime_database *)

ToEnrich == {anime_to_enrich[i] : i \in 1..Len(anime_to_enrich)}

C11_Sequence ==
    /\ pc = "enrich_fetch" => (eidx = nFetches + 1 /\ eidx <= Len(anime_to_enrich))
    /\ pc = "enrich_sleep" => (eidx = nFetches /\ eidx <= Len(anime_to_enrich))
    /\ pc = "enrich_commit" => nFetches = Len(anime_to_enrich)
    /\ pc \in {"enrich_fetch", "enrich_sleep", "enrich_commit"} =>
          /\ Cardinality(ToEnrich) = Len(anime_to_enrich)
          /\ enriched_count <= nFetches
          /\ \A id \in DOMAIN dirty : \E i \in 1..nFetches : anime_to_enrich[i] = id
    /\ (pc = "returned" /\ result.kind = "success" /\ anime_to_enrich # <<>>) =>
          /\ nFetches = Len(anime_to_enrich)
          /\ result.enriched_count = enriched_count

C11_Step ==
    /\ nFetches' = nFetches + 1 =>
          /\ pc = "enrich_fetch" /\ pc' = "enrich_sleep"
          /\ lastStatus' # "200" => (dirty' = dirty /\ enriched_count' = enriched_count)
          /\ lastStatus' = "200" => enriched_count' = enriched_count + 1
          /\ \A id \in DOMAIN dirty' :
                id # anime_to_enrich[eidx] => (id \in DOMAIN dirty /\ dirty'[id] = dirty[id])
    /\ pc = "enrich_sleep" =>
          /\ pc' = (IF eidx < Len(anime_to_enrich) THEN "enrich_fetch" ELSE "enrich_commit")
          /\ nFetches' = nFetches
          /\ dirty' = dirty
    /\ (pc = "enrich_commit" /\ pc' = "returned") =>
          /\ \A id \in DOMAIN db : db'[id] = (IF id \in DOMAIN dirty THEN dirty[id] ELSE db[id])
          /\ result'.kind = "success"
          /\ result'.enriched_count = enriched_count

\* C11: one enrichment run fetches every selected entry exactly once, in the
\* order of the selection; a fetch that fails (rate limit or any other
\* failure) leaves the entry and the count as they were, is not repeated, and
\* is followed by the pacing sleep and the next entry; after the last entry the
\* updates of the entries whose fetch returned data are committed and the
\* count of those fetches is returned.
C11_FailureIsolation == [](C11_Sequence) /\ [][C11_Step]_vars

\* two entries: the first fetch is rate-limited, the second returns data, the
\* run commits the second entry's cover and reports 1
C11_Witness ==
    /\ pc = "returned"
    /\ result.kind = "success"
    /\ nFetches = 2
    /\ enriched_count = 1
    /\ lastStatus = "200"
    /\ db[anime_to_enrich[1]] = dbAtCommit[anime_to_enrich[1]]
    /\ db[anime_to_enrich[2]] # dbAtCommit[anime_to_enrich[2]]
    /\ db[anime_to_enrich[2]].mal_rating = Some(8)

Selected(e) ==
    /\ e.mal_id # None
    /\ \/ e.cover_image_url = None
       \/ (e.mal_rating = None /\ e.airing_status # Some(<<"Not Yet Aired">>))

\* C12: the entries an enrichment run selects are exactly the committed
\* records with a non-null mal_id and (a null cover_image_url, or a null
\* mal_rating and an airing_status other than "Not Yet Aired").
C12_Eligibility ==
    (\/ pc \in {"enrich_fetch", "enrich_sleep", "enrich_commit"}
     \/ (pc = "returned" /\ result.kind = "success")) =>
        ToEnrich = {id \in DOMAIN dbAtCommit : Selected(dbAtCommit[id])}

\* an unaired record with a cover and no rating is passed over, next to a
\* selected record whose airing_status is null
C12_Witness ==
    /\ pc = "enrich_fetch"
    /\ Len(anime_to_enrich) = 1
    /\ db[anime_to_enrich[1]].airing_status = None
    /\ db[anime_to_enrich[1]].cover_image_url # None
    /\ \E id \in DOMAIN db :
          /\ id \notin ToEnrich
          /\ db[id].mal_id # None
          /\ db[id].airing_status = Some(<<"Not Yet Aired">>)
          /\ db[id].mal_rating = None
          /\ db[id].cover_image_url # None

-----------------------------------------------------------------------------
(* Claims about the remote calls *)

\* C13: every remote call of the spreadsheet service issued by a sync run or
\* by the progress write-back is issued through execute_with_retry.
C13_AllThroughRetry == \A c \in remote : c.wrapped

-----------------------------------------------------------------------------
(* Claims about populate_anime_series_tab *)

BatchNames ==
    {Strip(anime_row_dicts[i]["series_en"]) : i \in 1..Len(anime_row_dicts)} \ {<<>>}

HubRowsNamed(tab, name) == {i \in 1..Len(tab.rows) : Strip(tab.rows[i].series_en) = name}

HubIds(tab) == {Strip(tab.rows[i].system_id) : i \in 1..Len(tab.rows)}

Appended == (Len(hubAtCall.rows) + 1)..Len(hubTab.rows)

-----------------------------------------------------------------------------
(* Claims about update_episode_progress_in_sheet *)

RowsWithId == {r \in 1..Len(sheetAtCall) : Strip(sheetAtCall[r]["system_id"]) = p_system_id}

\* C16: a successful call changed exactly the ep_fin cell of the row whose
\* identifier is system_id, to ep_fin; a call for an identifier that no row
\* of the sheet has fails, as does a call on a sheet without the ep_fin
\* header; a failed call changed no cell.
C16_ProgressWriteBack ==
    /\ ppc = "returned" =>
          \E r \in RowsWithId :
              /\ "ep_fin" \in DOMAIN sheet[r]
              /\ CleanInt(sheet[r]["ep_fin"]) = Some(p_ep_fin)
              /\ \A q \in 1..Len(sheet) : \A c \in DOMAIN sheet[q] :
                    (q # r \/ c # "ep_fin") => sheet[q][c] = sheetAtCall[q][c]
    /\ ppc = "raised" => sheet = sheetAtCall
    /\ (ppc \in {"returned", "raised"} /\ RowsWithId = {}) =>
          (ppc = "raised" /\ p_error \in {"not_found", "api_error"})
    /\ (ppc \in {"returned", "raised"} /\ "ep_fin" \notin headers) => ppc = "raised"
    /\ Len(sheet) = Len(sheetAtCall)

\* the identifier of the second row is also the studio of the first
C16_WrongRow ==
    /\ ppc = "returned"
    /\ Len(sheetAtCall) = 2
    /\ sheetAtCall[1]["system_id"] = <<"a">>
    /\ sheetAtCall[1]["studio"] = <<"b">>
    /\ sheetAtCall[2]["system_id"] = <<"b">>
    /\ p_system_id = <<"b">>
    /\ p_ep_fin = 12
    /\ sheet[1]["ep_fin"] = <<"1", "2">>
    /\ sheet[2] = sheetAtCall[2]

\* C16 on sheets where no cell outside the system_id column holds the identifier
C16_WithoutCollision ==
    (\A r \in 1..Len(sheetAtCall) : sheetAtCall[r]["studio"] # p_system_id)
        => C16_ProgressWriteBack

-----------------------------------------------------------------------------
(* Claims about the store over many runs *)

Misconfigured == pc # "idle" /\ hdrs # {} /\ "system_id" \notin hdrs

\* C17: a sync run over a primary tab whose header row lacks system_id fails
\* without having staged or committed any record and without having written
\* any spreadsheet cell.
C17_ConfigurationErrorIsFatal ==
    Misconfigured =>
        /\ pc # "returned"
        /\ rowlog = <<>>
        /\ pending = <<>>
        /\ dirty = EmptyMap
        /\ db = dbAtStart
        /\ sheet = anime_row_dicts

\* the run the claim speaks of: it returns success with a record committed
C17_RunSucceeds ==
    /\ Misconfigured
    /\ pc = "returned"
    /\ result.kind = "success"
    /\ result.rows_updated = 1
    /\ Cardinality(DOMAIN db) = Cardinality(DOMAIN dbAtStart) + 1

Reconciled(id) == \E i \in 1..Len(rowlog) : rowlog[i].id = id

C18_Step ==
    /\ DOMAIN db \subseteq DOMAIN db'
    /\ (nCommits = 0 /\ nCommits' = 1) =>
          \A id \in DOMAIN db : ~Reconciled(id) => db'[id] = db[id]

\* C18: no step of any sync run, successful or failed, removes a record from
\* the committed store, and the reconciliation commit leaves every record
\* that no row of the run names exactly as it was.
C18_NeverDeleted == [][C18_Step]_vars

\* two records, then one of the two rows is deleted from the sheet and a
\* second run completes: the record of the deleted row is still there
C18_Witness ==
    /\ runs = 2
    /\ edits = 1
    /\ pc = "returned"
    /\ result.kind = "success"
    /\ Cardinality(DOMAIN dbAtStart) = 2
    /\ Len(anime_row_dicts) = 1
    /\ rowlog[1].kind = "updated"
    /\ \E id \in DOMAIN db : ~Reconciled(id) /\ db[id] = dbAtStart[id]

SharedNewId ==
    \E i, j \in 1..Len(pending) : i # j /\ pending[i].system_id = pending[j].system_id

C19_Keys ==
    /\ \A id \in DOMAIN db : db[id].system_id = id
    /\ nCommits >= 1 =>
          Cardinality(DOMAIN dbAtCommit) = Cardinality(DOMAIN dbAtStart) + added_count
    /\ \A i \in 1..Len(rowlog) :
          rowlog[i].kind = "updated" =>
              rowlog[i].after.system_id = rowlog[i].before[1].system_id

C19_Step ==
    /\ \A id \in DOMAIN db :
          id \in DOMAIN db' => db'[id].system_id = db[id].system_id
    /\ SharedNewId => db' = db

\* C19: the committed store holds one record per system_id (every record a
\* run created is a record of its own under its own identifier), no step
\* changes the system_id of a stored record, and a batch in which two rows
\* carry the same identifier not yet in the store commits nothing.
C19_UniqueImmutableId == [](C19_Keys) /\ [][C19_Step]_vars

\* two rows with one identifier that the store does not have: both are
\* staged as created, and the commit raises
C19_Witness ==
    /\ pc = "raised"
    /\ result.error = "store_error"
    /\ Len(rowlog) = 2
    /\ rowlog[1].id = rowlog[2].id
    /\ rowlog[1].kind = "created"
    /\ rowlog[2].kind = "created"
    /\ ~rowlog[1].minted
    /\ cells_to_update = <<>>
    /\ db = dbAtStart
    /\ nCommits = 0

\* the season a title in series_season_en states
C20_EnglishSeason(title) ==
    CASE title = <<"x", " ", "season", " ", "2">> -> Some(<<"Season", " ", "2">>)
      [] title = <<"SEASON", " ", "2", " ", "part", " ", "1">> ->
            Some(<<"Season", " ", "2", " ", "Part", " ", "1">>)
      [] OTHER -> None

\* the season a title in series_season_cn states
C20_ChineseSeason(title) ==
    CASE title = <<"di", "er", "ji">> -> Some(<<"Season", " ", "2">>)
      [] title = <<"di", " ", "3", "ji">> -> Some(<<"Season", " ", "3">>)
      [] title = <<"di", "shi", "ji">> -> Some(<<"Season", " ", "1", "0">>)
      [] OTHER -> None

\* the patches queued for the series_season cell of data row r
SeasonPatches(r) ==
    {k \in 1..Len(cells_to_update) :
        cells_to_update[k].row = r + 1 /\ cells_to_update[k].col = "series_season"}

\* C20: a row whose series_season cell is non-blank keeps the cell's value and
\* queues no season patch; for a blank cell the English season title decides
\* the season when it matches, the Chinese title only when the English one
\* does not, and a row whose season was inferred has exactly one patch queued
\* for its series_season cell, carrying the inferred season.
C20_SeasonInference ==
    \A i \in 1..Len(rowlog) :
        LET row == anime_row_dicts[rowlog[i].row]
            cell == Get(row, "series_season")
            en == C20_EnglishSeason(Get(row, "series_season_en"))
            cn == C20_ChineseSeason(Get(row, "series_season_cn"))
            stored == rowlog[i].data.series_season
            queued == SeasonPatches(rowlog[i].row)
        IN  IF Strip(cell) # <<>>
               THEN stored = Some(Strip(cell)) /\ queued = {}
               ELSE /\ en # None => stored = en
                    /\ (en = None /\ cn # None) => stored = cn
                    /\ "series_season" \in DOMAIN row =>
                          IF stored # None
                             THEN /\ Cardinality(queued) = 1
                                  /\ \A k \in queued : cells_to_update[k].value = stored[1]
                             ELSE queued = {}

\* a blank season cell, both titles stating a season: the English one won and
\* one patch is queued
C20_Witness ==
    \E i \in 1..Len(rowlog) :
        LET row == anime_row_dicts[rowlog[i].row]
        IN  /\ "series_season" \in DOMAIN row
            /\ row["series_season"] = <<" ">>
            /\ Get(row, "series_season_en") = <<"SEASON", " ", "2", " ", "part", " ", "1">>
            /\ Get(row, "series_season_cn") = <<"di", " ", "3", "ji">>
            /\ rowlog[i].data.series_season =
                  Some(<<"Season", " ", "2", " ", "Part", " ", "1">>)
            /\ Cardinality(SeasonPatches(rowlog[i].row)) = 1

\* a blank season cell, only the Chinese title stating a season
C20_ChineseWitness ==
    \E i \in 1..Len(rowlog) :
        LET row == anime_row_dicts[rowlog[i].row]
        IN  /\ "series_season" \in DOMAIN row
            /\ row["series_season"] = <<>>
            /\ Get(row, "series_season_en") = <<"Season", "2">>
            /\ Get(row, "series_season_cn") = <<"di", "shi", "ji">>
            /\ rowlog[i].data.series_season = Some(<<"Season", " ", "1", "0">>)
            /\ Cardinality(SeasonPatches(rowlog[i].row)) = 1

\* neither title of the row states a season
NoSeasonMarker(row) ==
    /\ C20_EnglishSeason(Get(row, "series_season_en")) = None
    /\ C20_ChineseSeason(Get(row, "series_season_cn")) = None

\* the rows of the batch that carry the series name of row
SameSeries(row) ==
    {j \in 1..Len(anime_row_dicts) :
        Strip(Get(anime_row_dicts[j], "series_en")) = Strip(Get(row, "series_en"))}

\* C21: a row with a blank season cell and no season stated in either title
\* gets the season "Season 1", and one patch carrying it, exactly when its
\* series_en is non-blank and no other row of the batch carries that name;
\* otherwise its season stays absent and no season patch is queued.
C21_SeasonDefault ==
    \A i \in 1..Len(rowlog) :
        LET row == anime_row_dicts[rowlog[i].row]
            stored == rowlog[i].data.series_season
            queued == SeasonPatches(rowlog[i].row)
            once == /\ Strip(Get(row, "series_en")) # <<>>
                    /\ Cardinality(SameSeries(row)) = 1
        IN  (Strip(Get(row, "series_season")) = <<>> /\ NoSeasonMarker(row)) =>
               /\ stored = IF once THEN Some(<<"Season", " ", "1">>) ELSE None
               /\ "series_season" \in DOMAIN row =>
                     IF once
                        THEN /\ Cardinality(queued) = 1
                             /\ \A k \in queued :
                                   cells_to_update[k].value = <<"Season", " ", "1">>
                        ELSE queued = {}

\* a batch of two rows without seasons, the series of the second one named
\* once: it got the default and a patch
C21_Witness ==
    /\ Len(anime_row_dicts) = 2
    /\ Len(rowlog) = 2
    /\ \A r \in 1..2 : /\ "series_season" \in DOMAIN anime_row_dicts[r]
                        /\ Strip(anime_row_dicts[r]["series_season"]) = <<>>
                        /\ NoSeasonMarker(anime_row_dicts[r])
    /\ Get(anime_row_dicts[1], "series_en") = <<>>
    /\ Get(anime_row_dicts[2], "series_en") = <<"X", " ">>
    /\ rowlog[1].data.series_season = None
    /\ rowlog[2].data.series_season = Some(<<"Season", " ", "1">>)
    /\ SeasonPatches(1) = {}
    /\ Cardinality(SeasonPatches(2)) = 1

\* a series named by two rows of the batch, neither with a season: no default
C21_TwiceWitness ==
    /\ Len(anime_row_dicts) = 2
    /\ Len(rowlog) = 2
    /\ \A r \in 1..2 : /\ "series_season" \in DOMAIN anime_row_dicts[r]
                        /\ Strip(anime_row_dicts[r]["series_season"]) = <<>>
                        /\ NoSeasonMarker(anime_row_dicts[r])
    /\ Get(anime_row_dicts[1], "series_en") = <<"X">>
    /\ Get(anime_row_dicts[2], "series_en") = <<"X", " ">>
    /\ rowlog[1].data.series_season = None
    /\ rowlog[2].data.series_season = None
    /\ SeasonPatches(1) = {} /\ SeasonPatches(2) = {}

\* the patches queued for the ep_total cell of data row r
EpTotalPatches(r) ==
    {k \in 1..Len(cells_to_update) :
        cells_to_update[k].row = r + 1 /\ cells_to_update[k].col = "ep_total"}

\* the airing_type cells that read "movie" when case is ignored
MovieCells == {<<"Movie">>, <<"MOVIE", " ">>, <<"movie">>}

\* the ep_total cells whose number is 1
OneCells == {<<"1">>, <<" ", "1">>, <<"0", "1">>}

\* C22: a row whose airing_type is "movie" in any case is stored with
\* ep_total 1, with exactly one ep_total patch of value 1 when the cell's
\* number was not 1 (absent and non-numeric included) and none when it was;
\* a row of any other airing type keeps its ep_total and gets no such patch.
C22_MovieEpTotal ==
    \A i \in 1..Len(rowlog) :
        LET row == anime_row_dicts[rowlog[i].row]
            stored == rowlog[i].data.ep_total
            queued == EpTotalPatches(rowlog[i].row)
        IN  IF Get(row, "airing_type") \in MovieCells
               THEN /\ stored = Some(1)
                    /\ "ep_total" \in DOMAIN row =>
                          IF row["ep_total"] \in OneCells
                             THEN queued = {}
                             ELSE /\ Cardinality(queued) = 1
                                  /\ \A k \in queued : cells_to_update[k].value = <<"1">>
               ELSE /\ stored = (IF Get(row, "ep_total") \in OneCells THEN Some(1)
                                 ELSE IF Get(row, "ep_total") = <<"2">> THEN Some(2)
                                 ELSE None)
                    /\ queued = {}

\* a movie without a usable episode total next to a movie that has 1
C22_Witness ==
    /\ Len(rowlog) = 2
    /\ "ep_total" \in hdrs
    /\ anime_row_dicts[1]["airing_type"] = <<"MOVIE", " ">>
    /\ anime_row_dicts[1]["ep_total"] = <<"x">>
    /\ anime_row_dicts[2]["airing_type"] = <<"Movie">>
    /\ anime_row_dicts[2]["ep_total"] = <<"0", "1">>
    /\ rowlog[1].data.ep_total = Some(1)
    /\ rowlog[2].data.ep_total = Some(1)
    /\ Cardinality(EpTotalPatches(1)) = 1
    /\ EpTotalPatches(2) = {}

\* the patches queued for the mal_id cell of data row r
MalIdPatches(r) ==
    {k \in 1..Len(cells_to_update) :
        cells_to_update[k].row = r + 1 /\ cells_to_update[k].col = "mal_id"}

\* the number a mal_id cell holds, absent for a blank or non-numeric cell
C23_CellId(cell) == IF cell = <<"7">> THEN Some(7) ELSE None

\* the id a link of the canonical shape carries
C23_LinkId(link) ==
    IF link = <<"https://", MalUrl, "4", "2", "/", "x">> THEN Some(42) ELSE None

C23_Row(i) ==
    LET row == anime_row_dicts[rowlog[i].row]
        present == C23_CellId(Get(row, "mal_id"))
        linked == C23_LinkId(Get(row, "mal_link"))
        stored == rowlog[i].data.mal_id
        queued == MalIdPatches(rowlog[i].row)
    IN  IF present # None
           THEN stored = present /\ queued = {}
        ELSE IF linked # None
           THEN /\ stored = linked
                /\ "mal_id" \in DOMAIN row =>
                      /\ Cardinality(queued) = 1
                      /\ \A k \in queued : cells_to_update[k].value = <<"4", "2">>
        ELSE stored = None /\ queued = {}

\* C23: a row whose normalized mal_id is absent and whose mal_link has the
\* canonical anime-URL shape is stored with the id of the link and gets
\* exactly one mal_id patch carrying it; a row whose mal_id is present keeps
\* it without a patch; a link of another shape gives no id and no patch.
C23_ExternalIdExtraction == \A i \in 1..Len(rowlog) : C23_Row(i)

\* the same for the rows whose mal_id cell is blank or a number
C23_UnlessNonNumeric ==
    \A i \in 1..Len(rowlog) :
        Get(anime_row_dicts[rowlog[i].row], "mal_id") # <<"x">> => C23_Row(i)

\* a non-numeric mal_id cell next to a canonical link: no id, no patch
C23_NonNumericCell ==
    \E i \in 1..Len(rowlog) :
        LET row == anime_row_dicts[rowlog[i].row]
        IN  /\ Get(row, "mal_id") = <<"x">>
            /\ C23_LinkId(Get(row, "mal_link")) = Some(42)
            /\ rowlog[i].data.mal_id = None
            /\ MalIdPatches(rowlog[i].row) = {}

\* a blank mal_id cell next to a canonical link: id 42 and one patch
C23_Extracted ==
    \E i \in 1..Len(rowlog) :
        LET row == anime_row_dicts[rowlog[i].row]
        IN  /\ "mal_id" \in DOMAIN row
            /\ row["mal_id"] = <<" ">>
            /\ rowlog[i].data.mal_id = Some(42)
            /\ Cardinality(MalIdPatches(rowlog[i].row)) = 1

\* the identifiers the program minted
Minted == {Uuid(n) : n \in 1..Len(UuidTokens)}

\* some row of the spreadsheet carries the identifier
InSheet(id) == \E r \in 1..Len(sheet) : Strip(Get(sheet[r], "system_id")) = id

\* C24: on a tab with a system_id header, once the reconciliation commit of
\* a run has happened every identifier minted in the run stands in the
\* system_id cell of its row; every committed record with a minted
\* identifier has it in the spreadsheet as long as the editor has not touched
\* the tab; and a run whose patch flush failed committed nothing.
C24_WriteBackBeforeCommit ==
    "system_id" \in headers =>
        /\ (hdrs = headers /\ nCommits >= 1) =>
              \A i \in 1..Len(rowlog) :
                  rowlog[i].minted =>
                      /\ rowlog[i].row \in DOMAIN sheet
                      /\ sheet[rowlog[i].row]["system_id"] = rowlog[i].id
        /\ \A i \in 1..Len(rowlog) :
              (rowlog[i].minted /\ rowlog[i].id \in DOMAIN db) => InSheet(rowlog[i].id)
        /\ edits = 0 => \A id \in DOMAIN db \cap Minted : InSheet(id)
        /\ (pc = "raised" /\ result.error = "sheet_error") =>
              (nCommits = 0 /\ db = dbAtStart)

\* two rows got identifiers, both were written back, then both were committed
C24_Witness ==
    /\ "system_id" \in headers
    /\ nCommits >= 1
    /\ Len(rowlog) = 2
    /\ rowlog[1].minted /\ rowlog[2].minted
    /\ flushed = 2
    /\ {rowlog[1].id, rowlog[2].id} \subseteq DOMAIN db
    /\ InSheet(rowlog[1].id) /\ InSheet(rowlog[2].id)

\* the second patch chunk failed: one identifier is in the tab, none committed
C24_FailedFlush ==
    /\ "system_id" \in headers
    /\ pc = "raised"
    /\ result.error = "sheet_error"
    /\ flushed = 1
    /\ rowlog[1].minted
    /\ InSheet(rowlog[1].id)
    /\ rowlog[1].id \notin DOMAIN db

\* the rows of the tab, as it is now, that carry the identifier of the request
RouteRows == {r \in 1..Len(sheet) : Strip(sheet[r]["system_id"]) = p_system_id}

\* the number an ep_fin cell of the tab holds
C25_CellEpFin(row) ==
    IF "ep_fin" \in DOMAIN row /\ row["ep_fin"] = <<"1">> THEN Some(1) ELSE None

\* the request is answered and no sync run has started since
RouteAnswered(how) == ppc = how /\ pc = "idle"

C25_NotFound ==
    /\ (RouteAnswered("raised") /\ p_error = "http_404") =>
          (p_system_id \notin DOMAIN dbAtCall /\ db = dbAtCall /\ sheet = sheetAtCall)
    /\ (ppc \notin {"route", "raised"} \/ p_error \notin {"", "http_404", "store_error"}) =>
          p_system_id \in DOMAIN dbAtCall

C25_Success ==
    RouteAnswered("returned") =>
        /\ db[p_system_id]["ep_fin"] = Some(p_ep_fin)
        /\ \E r \in RouteRows : sheet[r]["ep_fin"] = StrOf(p_ep_fin)

C25_SheetFailure ==
    (ppc = "raised" /\ p_error \in {"api_error", "not_found", "no_ep_fin_column"}) =>
        /\ pc = "idle" => (db[p_system_id]["ep_fin"] = Some(p_ep_fin) /\ sheet = sheetAtCall)
        /\ (pc = "returned" /\ result.kind = "success" /\ RouteRows # {}) =>
              \E r \in RouteRows : db[p_system_id]["ep_fin"] = C25_CellEpFin(sheet[r])

\* C25: a progress request for an identifier without a record changes
\* neither store; a request answered with success leaves the new ep_fin in the
\* record and in the spreadsheet row of that identifier; when the spreadsheet
\* write fails after the store commit the record has the new ep_fin and the
\* tab is as it was, and the next successful sync run gives the record the
\* ep_fin of its spreadsheet row.
C25_TwoWayProgress == C25_NotFound /\ C25_Success /\ C25_SheetFailure

\* the same, for requests whose identifier is the text of no other cell
C25_WithoutCollision ==
    /\ C25_NotFound
    /\ C25_SheetFailure
    /\ (\A r \in 1..Len(sheetAtCall) : sheetAtCall[r]["studio"] # p_system_id) => C25_Success

\* success is answered, the record has the new ep_fin, the row of the
\* identifier has the old one
C25_WrongRow ==
    /\ RouteAnswered("returned")
    /\ db[p_system_id]["ep_fin"] = Some(p_ep_fin)
    /\ RouteRows # {}
    /\ \A r \in RouteRows : sheet[r]["ep_fin"] = sheetAtCall[r]["ep_fin"]
    /\ sheet # sheetAtCall

\* the write failed, then a sync run put the ep_fin of the tab back
C25_SyncRestores ==
    /\ ppc = "raised"
    /\ p_error = "api_error"
    /\ pc = "returned"
    /\ result.kind = "success"
    /\ dbAtCall[p_system_id]["ep_fin"] = Some(5)
    /\ db[p_system_id]["ep_fin"] = Some(1)

=============================================================================
